---- MODULE Spec2Model ----
(***************************************************************************)
(* Model of the technician-performance computation of app/perf_logic.py:   *)
(* normalisation, station-order inference, the per-unit walk that          *)
(* attributes every flow-station failure to the next 'swap' event, the     *)
(* outcome sub-scan of each attempt, and the scorecard aggregation.        *)
(*                                                                         *)
(* Positions (i, fail_index, swap_index, k) are 0-based as in the Python   *)
(* code; At(rows, n) reads rows[n].                                        *)
(* Floats are modelled exactly as scaled integers: percentages in          *)
(* hundredths, relative load and score in thousandths, and the expected    *)
(* load as the fraction <<numerator, denominator>>.                        *)
(***************************************************************************)
EXTENDS Integers, Sequences, FiniteSets, TLC

\* Longest generated event log (number of rows of the input frame).
MaxRows == 4

\* Longest generated event log tried with a rank map that ranks swap above 0.
MaxRowsSwapRanked == 2

\* Longest generated event log that has an event_id column.
MaxRowsEventId == 3

\* Largest number of input files in the report directory when a task starts.
MaxFiles == 3

(***************************************************************************)
(* Generic helpers (Python list / dict primitives).                        *)
(***************************************************************************)
Range(s) == {s[n] : n \in 1..Len(s)}

At(rows, n) == rows[n + 1]

\* 1-based position of the first occurrence of x in s (x must occur).
IndexOf(s, x) == CHOOSE n \in 1..Len(s) : s[n] = x /\ \A m \in 1..(n - 1) : s[m] # x

\* dict as an insertion-ordered sequence of [key, val] entries.
DictKeys(d) == {d[n].key : n \in 1..Len(d)}

DictGet(d, key, default) ==
    IF key \in DictKeys(d)
    THEN d[CHOOSE n \in 1..Len(d) : d[n].key = key].val
    ELSE default

\* defaultdict(int)[key] += 1
DictInc(d, key) ==
    IF key \in DictKeys(d)
    THEN [n \in 1..Len(d) |-> IF d[n].key = key
                              THEN [key |-> key, val |-> d[n].val + 1]
                              ELSE d[n]]
    ELSE Append(d, [key |-> key, val |-> 1])

\* Python round(num/den) for num >= 0, den > 0: nearest, ties to even.
RoundDiv(num, den) ==
    LET q == num \div den
        r == num % den
    IN  IF 2 * r < den THEN q
        ELSE IF 2 * r > den THEN q + 1
        ELSE IF q % 2 = 0 THEN q ELSE q + 1


(***************************************************************************)
(* Input alphabet.                                                         *)
(***************************************************************************)
\* Serial numbers the inputs use, in Python string order.
SnSorted == <<"mxq1", "mxq2", "mxq3", "mxq4", "mxq5", "u1", "u2">>

\* Position of a serial number in Python string order (the "sn" sort key).
SnRank(sn) == CHOOSE n \in 1..Len(SnSorted) : SnSorted[n] = sn

Ev(sn, station, status, error_code, badge) ==
    [sn |-> sn, station |-> station, status |-> status,
     error_code |-> error_code, badge |-> badge]

\* SAMPLE_CSV of the test module, as read by pandas.read_csv(dtype=str,
\* keep_default_na=False).
SAMPLE_CSV == <<
    Ev("mxq1", "fto", "pass", "", "123"),
    Ev("mxq1", "runnin", "pass", "", "123"),
    Ev("mxq1", "test4", "fail", "0-A23", "123"),
    Ev("mxq1", "swap", "pass", "", "456"),
    Ev("mxq1", "fto", "pass", "", "456"),
    Ev("mxq1", "runnin", "pass", "", "456"),
    Ev("mxq1", "test4", "pass", "", "456"),
    Ev("mxq1", "disk test", "pass", "", "456"),
    Ev("mxq1", "crisscross", "pass", "", "456"),
    Ev("mxq2", "fto", "pass", "", "789"),
    Ev("mxq2", "runnin", "pass", "", "789"),
    Ev("mxq2", "test4", "pass", "", "789"),
    Ev("mxq2", "disk test", "fail", "0-A23", "789"),
    Ev("mxq2", "swap", "pass", "", "456"),
    Ev("mxq2", "fto", "pass", "", "456"),
    Ev("mxq2", "runnin", "fail", "0-A23", "456"),
    Ev("mxq2", "swap", "pass", "", "987"),
    Ev("mxq2", "fto", "pass", "", "987"),
    Ev("mxq2", "runnin", "pass", "", "987"),
    Ev("mxq2", "test4", "pass", "", "987"),
    Ev("mxq2", "disk test", "pass", "", "987"),
    Ev("mxq3", "fto", "pass", "", "111"),
    Ev("mxq3", "runnin", "fail", "0-A23", "111"),
    Ev("mxq3", "swap", "pass", "", "987"),
    Ev("mxq3", "fto", "fail", "0-A23", "987"),
    Ev("mxq3", "swap", "pass", "", "987"),
    Ev("mxq3", "fto", "pass", "", "987"),
    Ev("mxq3", "runnin", "pass", "", "987"),
    Ev("mxq3", "test4", "fail", "0-A23", "987"),
    Ev("mxq3", "swap", "pass", "", "333"),
    Ev("mxq3", "fto", "pass", "", "333"),
    Ev("mxq3", "runnin", "pass", "", "333"),
    Ev("mxq3", "test4", "pass", "", "333"),
    Ev("mxq3", "disk test", "pass", "", "333"),
    Ev("mxq4", "fto", "fail", "0-A23", "222"),
    Ev("mxq4", "swap", "pass", "", "555"),
    Ev("mxq4", "fto", "fail", "0-A23", "555"),
    Ev("mxq4", "swap", "pass", "", "555"),
    Ev("mxq4", "fto", "fail", "0-A23", "555"),
    Ev("mxq4", "swap", "pass", "", "666"),
    Ev("mxq4", "fto", "pass", "", "666"),
    Ev("mxq4", "runnin", "pass", "", "666"),
    Ev("mxq4", "test4", "pass", "", "666"),
    Ev("mxq4", "disk test", "pass", "", "666"),
    Ev("mxq5", "fto", "pass", "", "987"),
    Ev("mxq5", "runnin", "fail", "0-A23", "987"),
    Ev("mxq5", "swap", "pass", "", "987"),
    Ev("mxq5", "fto", "pass", "", "987"),
    Ev("mxq5", "runnin", "pass", "", "987"),
    Ev("mxq5", "test4", "fail", "0-A23", "987"),
    Ev("mxq5", "swap", "pass", "", "777"),
    Ev("mxq5", "fto", "pass", "", "777"),
    Ev("mxq5", "runnin", "pass", "", "777"),
    Ev("mxq5", "test4", "pass", "", "777"),
    Ev("mxq5", "disk test", "pass", "", "777") >>

(***************************************************************************)
(* Normalizacion y orden.                                                  *)
(***************************************************************************)
\* str.strip().str.lower() on the strings the inputs use.
StripLower(s) ==
    CASE s = " SWAP" -> "swap"
      [] s = "Fail"  -> "fail"
      [] s = "E1 "   -> "e1"
      [] s = "0-A23" -> "0-a23"
      [] OTHER       -> s

\* The columns other than event_id; an event_id column is left as it is.
_normalize_frame(df) ==
    [n \in 1..Len(df) |->
        IF "event_id" \in DOMAIN df[n]
        THEN [sn         |-> df[n].sn,
              station    |-> StripLower(df[n].station),
              status     |-> StripLower(df[n].status),
              error_code |-> StripLower(df[n].error_code),
              badge      |-> df[n].badge,
              event_id   |-> df[n].event_id]
        ELSE [sn         |-> df[n].sn,
              station    |-> StripLower(df[n].station),
              status     |-> StripLower(df[n].status),
              error_code |-> StripLower(df[n].error_code),
              badge      |-> df[n].badge]]

\* The distinct elements of s in first-occurrence order (the effect of
\* "if x not in acc: acc.append(x)" over s).
FirstOccurrences(s) ==
    LET first == {n \in 1..Len(s) : \A m \in 1..(n - 1) : s[m] # s[n]}
    IN  [k \in 1..Cardinality(first) |->
            s[CHOOSE n \in first : Cardinality({m \in first : m <= n}) = k]]

_infer_station_order(df) ==
    LET stations == [n \in 1..Len(df) |-> df[n].station]
        seen     == FirstOccurrences(SelectSeq(stations, LAMBDA st : st # "swap"))
        has_swap == \E n \in 1..Len(df) : df[n].station = "swap"
        keys     == Range(seen) \cup (IF has_swap THEN {"swap"} ELSE {})
    IN  [st \in keys |-> IF st = "swap" THEN 0 ELSE IndexOf(seen, st)]

\* Variant: the lowest rank above 0 is taken for the end of the line.
MaxFlowRank_lowest(station_order) ==
    LET flow == {r \in {station_order[st] : st \in DOMAIN station_order} : r > 0}
    IN  IF flow = {} THEN 0 ELSE CHOOSE r \in flow : \A q \in flow : r <= q

\* max((r for r in station_order.values() if r > 0), default=0)
MaxFlowRank(station_order) ==
    LET flow == {r \in {station_order[st] : st \in DOMAIN station_order} : r > 0}
    IN  IF flow = {} THEN 0 ELSE CHOOSE r \in flow : \A q \in flow : q <= r

\* df.reset_index().rename(columns={"index": "event_id"})
WithEventId(df) ==
    [n \in 1..Len(df) |->
        [sn |-> df[n].sn, station |-> df[n].station, status |-> df[n].status,
         error_code |-> df[n].error_code, badge |-> df[n].badge,
         event_id |-> n - 1]]

RowKeyLess(a, b) ==
    \/ SnRank(a.sn) < SnRank(b.sn)
    \/ a.sn = b.sn /\ a.event_id < b.event_id

RowKeyEq(a, b) == a.sn = b.sn /\ a.event_id = b.event_id

\* Variant: df.sort_values("sn") with an unstable sort: the rows of a unit
\* can come in another order than in the input (here, reversed).
SortRows_by_sn_unstable(df) ==
    LET pos == [n \in 1..Len(df) |->
                   1 + Cardinality({m \in 1..Len(df) :
                           \/ SnRank(df[m].sn) < SnRank(df[n].sn)
                           \/ df[m].sn = df[n].sn /\ m > n})] \o << >>
    IN  [p \in 1..Len(df) |-> df[CHOOSE n \in 1..Len(df) : pos[n] = p]]

\* df.sort_values(["sn", "event_id"], kind="mergesort"): row n goes behind
\* the rows with a smaller key and the earlier rows with an equal key.
SortRows(df) ==
    LET pos == [n \in 1..Len(df) |->
                   1 + Cardinality({m \in 1..Len(df) :
                           \/ RowKeyLess(df[m], df[n])
                           \/ RowKeyEq(df[m], df[n]) /\ m < n})] \o << >>
    IN  [p \in 1..Len(df) |-> df[CHOOSE n \in 1..Len(df) : pos[n] = p]]

\* "event_id" in df.columns
HasEventIdColumn(df) == df # << >> /\ "event_id" \in DOMAIN df[1]

\* Position in Python string order of the event_id strings the inputs use
\* (an event_id column read by read_csv(dtype=str) holds strings, and
\* "10" < "2" < "9").
StrIdRank == [id \in {"10", "2", "9"} |->
                 CASE id = "10" -> 1 [] id = "2" -> 2 [] OTHER -> 3]

\* df.sort_values(["sn", "event_id"], kind="mergesort") on a frame whose
\* event_id column holds strings.
SortRowsByStrId(df) ==
    LET pos == [n \in 1..Len(df) |->
                   1 + Cardinality({m \in 1..Len(df) :
                           \/ SnRank(df[m].sn) < SnRank(df[n].sn)
                           \/ /\ df[m].sn = df[n].sn
                              /\ StrIdRank[df[m].event_id] < StrIdRank[df[n].event_id]
                           \/ /\ df[m].sn = df[n].sn
                              /\ df[m].event_id = df[n].event_id
                              /\ m < n})] \o << >>
    IN  [p \in 1..Len(df) |-> df[CHOOSE n \in 1..Len(df) : pos[n] = p]]

\* Lines 84-86 on the normalised frame.
SortFrame(norm) ==
    IF HasEventIdColumn(norm) THEN SortRowsByStrId(norm)
    ELSE SortRows(WithEventId(norm))

\* Variant: the station order is inferred from the frame after it was sorted
\* by sn and event_id.
_prepare_dataframe_infer_sorted(df, order_arg) ==
    LET norm   == _normalize_frame(df)
        sorted == SortFrame(norm)
        order  == IF order_arg.is_none THEN _infer_station_order(sorted)
                  ELSE order_arg.map
    IN  [df            |-> sorted,
         station_order |-> order,
         max_flow_rank |-> MaxFlowRank(order)]

\* Variant: the station order is inferred also when the caller supplies one,
\* and the caller's ranks are then put over the inferred ones.
_prepare_dataframe_always_infers(df, order_arg) ==
    LET norm     == _normalize_frame(df)
        inferred == _infer_station_order(norm)
        order    == IF order_arg.is_none THEN inferred
                    ELSE [st \in DOMAIN inferred \cup DOMAIN order_arg.map |->
                             IF st \in DOMAIN order_arg.map THEN order_arg.map[st]
                             ELSE inferred[st]]
    IN  [df            |-> SortFrame(norm),
         station_order |-> order,
         max_flow_rank |-> MaxFlowRank(order)]

\* Returns (df_ordenado, station_order, max_flow_rank); order_arg.is_none
\* stands for station_order=None.
_prepare_dataframe(df, order_arg) ==
    LET norm  == _normalize_frame(df)
        order == IF order_arg.is_none THEN _infer_station_order(norm)
                 ELSE order_arg.map
    IN  [df            |-> SortFrame(norm),
         station_order |-> order,
         max_flow_rank |-> MaxFlowRank(order)]

\* [g.to_dict("records") for sn, g in df.groupby("sn", sort=False)]: the
\* groups come in first-occurrence order of sn, rows in frame order.
GroupBySn(df) ==
    LET keys == FirstOccurrences([n \in 1..Len(df) |-> df[n].sn])
    IN  [m \in 1..Len(keys) |-> SelectSeq(df, LAMBDA r : r.sn = keys[m])]

(***************************************************************************)
(* Iteradores de dominio.                                                  *)
(***************************************************************************)
\* Variant: the test "station_order[st] > 0" is missing.
IsFailure_any_rank(r, station_order) ==
    /\ r.status = "fail"
    /\ r.station \in DOMAIN station_order

\* The test of line 111: a fail at a station the map ranks above 0.
IsFailure(r, station_order) ==
    /\ r.status = "fail"
    /\ r.station \in DOMAIN station_order
    /\ station_order[r.station] > 0

\* The generator _iter_failures_for_sn resumed with its cursor at i: the
\* position of the next row it yields, or len(rows) when it is exhausted.
RECURSIVE NextFailureIndex(_, _, _)
NextFailureIndex(rows, station_order, i) ==
    IF i >= Len(rows) THEN Len(rows)
    ELSE IF IsFailure(At(rows, i), station_order) THEN i
    ELSE NextFailureIndex(rows, station_order, i + 1)

\* The FailureEvent yielded for the row at position i.
FailureEvent(rows, station_order, i) ==
    [sn         |-> At(rows, i).sn,
     fail_index |-> i,
     station    |-> At(rows, i).station,
     error_code |-> At(rows, i).error_code,
     fail_rank  |-> station_order[At(rows, i).station]]

\* The while loop of _find_repair_attempt: the position of the first 'swap'
\* row at or after j, len(rows) when there is none.
RECURSIVE NextSwapIndex(_, _)
NextSwapIndex(rows, j) ==
    IF j >= Len(rows) THEN Len(rows)
    ELSE IF At(rows, j).station = "swap" THEN j
    ELSE NextSwapIndex(rows, j + 1)

\* The value None of a RepairAttempt | None.
None == [is_none |-> TRUE, technician_badge |-> "", swap_index |-> -1]

\* Variant: the search skips 'swap' rows without a badge.
_find_repair_attempt_skip_blank(failure, rows) ==
    LET cand == {j \in (failure.fail_index + 1)..(Len(rows) - 1) :
                    At(rows, j).station = "swap" /\ At(rows, j).badge # ""}
        j    == CHOOSE c \in cand : \A d \in cand : c <= d
    IN  IF cand = {} THEN None
        ELSE [is_none |-> FALSE,
              technician_badge |-> At(rows, j).badge,
              swap_index |-> j]

\* Variant: the "if not badge" test is missing.
_find_repair_attempt_no_badge_test(failure, rows) ==
    LET j == NextSwapIndex(rows, failure.fail_index + 1)
    IN  IF j >= Len(rows) THEN None
        ELSE [is_none |-> FALSE,
              technician_badge |-> At(rows, j).badge,
              swap_index |-> j]

_find_repair_attempt(failure, rows) ==
    LET j == NextSwapIndex(rows, failure.fail_index + 1)
    IN  IF j >= Len(rows) THEN None
        ELSE IF At(rows, j).badge = "" THEN None
        ELSE [is_none |-> FALSE,
              technician_badge |-> At(rows, j).badge,
              swap_index |-> j]

\* station_order.get(st2, -1)
RankOf(station_order, st) ==
    IF st \in DOMAIN station_order THEN station_order[st] ELSE -1

\* Variant: every fail after the repair makes the attempt an inefficiency.
RECURSIVE SubScan_any_fail(_, _, _, _, _, _, _)
SubScan_any_fail(failure, rows, station_order, max_flow_rank, k, success, max_pass_rank) ==
    IF k >= Len(rows)
    THEN [success |-> success, max_pass_rank |-> max_pass_rank, k |-> k]
    ELSE
    LET st2     == At(rows, k).station
        status2 == At(rows, k).status
        rank2   == RankOf(station_order, st2)
        mpr     == IF rank2 > max_pass_rank THEN rank2 ELSE max_pass_rank
        succ    == IF mpr >= failure.fail_rank THEN TRUE ELSE success
    IN  IF st2 = "swap"
        THEN [success |-> success, max_pass_rank |-> max_pass_rank, k |-> k]
        ELSE IF status2 = "fail"
        THEN [success |-> FALSE, max_pass_rank |-> -1, k |-> k]
        ELSE IF status2 = "pass"
        THEN IF mpr = max_flow_rank
             THEN [success |-> succ, max_pass_rank |-> mpr, k |-> k]
             ELSE SubScan_any_fail(failure, rows, station_order, max_flow_rank,
                                   k + 1, succ, mpr)
        ELSE SubScan_any_fail(failure, rows, station_order, max_flow_rank,
                              k + 1, success, max_pass_rank)

\* Variant: a recurrence breaks the loop without resetting success.
RECURSIVE SubScan_keep_progress(_, _, _, _, _, _, _)
SubScan_keep_progress(failure, rows, station_order, max_flow_rank, k, success, max_pass_rank) ==
    IF k >= Len(rows)
    THEN [success |-> success, max_pass_rank |-> max_pass_rank, k |-> k]
    ELSE
    LET st2     == At(rows, k).station
        status2 == At(rows, k).status
        rank2   == RankOf(station_order, st2)
        err2    == At(rows, k).error_code
        same_code    == failure.error_code # "" /\ err2 # "" /\ err2 = failure.error_code
        same_station == (st2 = failure.station)
        mpr     == IF rank2 > max_pass_rank THEN rank2 ELSE max_pass_rank
        succ    == IF mpr >= failure.fail_rank THEN TRUE ELSE success
    IN  IF st2 = "swap"
        THEN [success |-> success, max_pass_rank |-> max_pass_rank, k |-> k]
        ELSE IF status2 = "fail"
        THEN IF same_station /\ same_code
             THEN [success |-> success, max_pass_rank |-> max_pass_rank, k |-> k]
             ELSE [success |-> TRUE, max_pass_rank |-> max_pass_rank, k |-> k]
        ELSE IF status2 = "pass"
        THEN IF mpr = max_flow_rank
             THEN [success |-> succ, max_pass_rank |-> mpr, k |-> k]
             ELSE SubScan_keep_progress(failure, rows, station_order, max_flow_rank,
                                        k + 1, succ, mpr)
        ELSE SubScan_keep_progress(failure, rows, station_order, max_flow_rank,
                                   k + 1, success, max_pass_rank)

\* Variant: same_code compares the codes without requiring them non-empty.
RECURSIVE SubScan_blank_codes_equal(_, _, _, _, _, _, _)
SubScan_blank_codes_equal(failure, rows, station_order, max_flow_rank, k, success, max_pass_rank) ==
    IF k >= Len(rows)
    THEN [success |-> success, max_pass_rank |-> max_pass_rank, k |-> k]
    ELSE
    LET st2     == At(rows, k).station
        status2 == At(rows, k).status
        rank2   == RankOf(station_order, st2)
        err2    == At(rows, k).error_code
        same_code    == err2 = failure.error_code
        same_station == (st2 = failure.station)
        mpr     == IF rank2 > max_pass_rank THEN rank2 ELSE max_pass_rank
        succ    == IF mpr >= failure.fail_rank THEN TRUE ELSE success
    IN  IF st2 = "swap"
        THEN [success |-> success, max_pass_rank |-> max_pass_rank, k |-> k]
        ELSE IF status2 = "fail"
        THEN IF same_station /\ same_code
             THEN [success |-> FALSE, max_pass_rank |-> -1, k |-> k]
             ELSE [success |-> TRUE, max_pass_rank |-> max_pass_rank, k |-> k]
        ELSE IF status2 = "pass"
        THEN IF mpr = max_flow_rank
             THEN [success |-> succ, max_pass_rank |-> mpr, k |-> k]
             ELSE SubScan_blank_codes_equal(failure, rows, station_order,
                                            max_flow_rank, k + 1, succ, mpr)
        ELSE SubScan_blank_codes_equal(failure, rows, station_order,
                                       max_flow_rank, k + 1, success, max_pass_rank)

\* Variant: a pass counts only beyond the failure's rank
\* (max_pass_rank > fail_rank).
RECURSIVE SubScan_strict_pass(_, _, _, _, _, _, _)
SubScan_strict_pass(failure, rows, station_order, max_flow_rank, k, success, max_pass_rank) ==
    IF k >= Len(rows)
    THEN [success |-> success, max_pass_rank |-> max_pass_rank, k |-> k]
    ELSE
    LET st2     == At(rows, k).station
        status2 == At(rows, k).status
        rank2   == RankOf(station_order, st2)
        err2    == At(rows, k).error_code
        same_code    == failure.error_code # "" /\ err2 # "" /\ err2 = failure.error_code
        same_station == (st2 = failure.station)
        mpr     == IF rank2 > max_pass_rank THEN rank2 ELSE max_pass_rank
        succ    == IF mpr > failure.fail_rank THEN TRUE ELSE success
    IN  IF st2 = "swap"
        THEN [success |-> success, max_pass_rank |-> max_pass_rank, k |-> k]
        ELSE IF status2 = "fail"
        THEN IF same_station /\ same_code
             THEN [success |-> FALSE, max_pass_rank |-> -1, k |-> k]
             ELSE [success |-> TRUE, max_pass_rank |-> max_pass_rank, k |-> k]
        ELSE IF status2 = "pass"
        THEN IF mpr = max_flow_rank
             THEN [success |-> succ, max_pass_rank |-> mpr, k |-> k]
             ELSE SubScan_strict_pass(failure, rows, station_order,
                                      max_flow_rank, k + 1, succ, mpr)
        ELSE SubScan_strict_pass(failure, rows, station_order,
                                 max_flow_rank, k + 1, success, max_pass_rank)

\* Variant: a 'swap' row does not end the sub-scan, it is skipped.
RECURSIVE SubScan_through_swap(_, _, _, _, _, _, _)
SubScan_through_swap(failure, rows, station_order, max_flow_rank, k, success, max_pass_rank) ==
    IF k >= Len(rows)
    THEN [success |-> success, max_pass_rank |-> max_pass_rank, k |-> k]
    ELSE
    LET st2     == At(rows, k).station
        status2 == At(rows, k).status
        rank2   == RankOf(station_order, st2)
        err2    == At(rows, k).error_code
        same_code    == failure.error_code # "" /\ err2 # "" /\ err2 = failure.error_code
        same_station == (st2 = failure.station)
        mpr     == IF rank2 > max_pass_rank THEN rank2 ELSE max_pass_rank
        succ    == IF mpr >= failure.fail_rank THEN TRUE ELSE success
    IN  IF st2 = "swap"
        THEN SubScan_through_swap(failure, rows, station_order,
                                  max_flow_rank, k + 1, success, max_pass_rank)
        ELSE IF status2 = "fail"
        THEN IF same_station /\ same_code
             THEN [success |-> FALSE, max_pass_rank |-> -1, k |-> k]
             ELSE [success |-> TRUE, max_pass_rank |-> max_pass_rank, k |-> k]
        ELSE IF status2 = "pass"
        THEN IF mpr = max_flow_rank
             THEN [success |-> succ, max_pass_rank |-> mpr, k |-> k]
             ELSE SubScan_through_swap(failure, rows, station_order,
                                       max_flow_rank, k + 1, succ, mpr)
        ELSE SubScan_through_swap(failure, rows, station_order,
                                  max_flow_rank, k + 1, success, max_pass_rank)

\* Variant: the test "max_pass_rank == max_flow_rank" of line 211 is missing.
RECURSIVE SubScan_no_end_of_line(_, _, _, _, _, _, _)
SubScan_no_end_of_line(failure, rows, station_order, max_flow_rank, k, success, max_pass_rank) ==
    IF k >= Len(rows)
    THEN [success |-> success, max_pass_rank |-> max_pass_rank, k |-> k]
    ELSE
    LET st2     == At(rows, k).station
        status2 == At(rows, k).status
        rank2   == RankOf(station_order, st2)
        err2    == At(rows, k).error_code
        same_code    == failure.error_code # "" /\ err2 # "" /\ err2 = failure.error_code
        same_station == (st2 = failure.station)
        mpr     == IF rank2 > max_pass_rank THEN rank2 ELSE max_pass_rank
        succ    == IF mpr >= failure.fail_rank THEN TRUE ELSE success
    IN  IF st2 = "swap"
        THEN [success |-> success, max_pass_rank |-> max_pass_rank, k |-> k]
        ELSE IF status2 = "fail"
        THEN IF same_station /\ same_code
             THEN [success |-> FALSE, max_pass_rank |-> -1, k |-> k]
             ELSE [success |-> TRUE, max_pass_rank |-> max_pass_rank, k |-> k]
        ELSE IF status2 = "pass"
        THEN SubScan_no_end_of_line(failure, rows, station_order,
                                    max_flow_rank, k + 1, succ, mpr)
        ELSE SubScan_no_end_of_line(failure, rows, station_order,
                                    max_flow_rank, k + 1, success, max_pass_rank)

\* The while loop of _evaluate_repair_attempt from position k on, with the
\* locals success and max_pass_rank; returns the locals when the loop ends
\* (k is the position of the row that broke the loop, len(rows) if none).
RECURSIVE SubScan(_, _, _, _, _, _, _)
SubScan(failure, rows, station_order, max_flow_rank, k, success, max_pass_rank) ==
    IF k >= Len(rows)
    THEN [success |-> success, max_pass_rank |-> max_pass_rank, k |-> k]
    ELSE
    LET st2     == At(rows, k).station
        status2 == At(rows, k).status
        rank2   == RankOf(station_order, st2)
        err2    == At(rows, k).error_code
        same_code    == failure.error_code # "" /\ err2 # "" /\ err2 = failure.error_code
        same_station == (st2 = failure.station)
        mpr     == IF rank2 > max_pass_rank THEN rank2 ELSE max_pass_rank
        succ    == IF mpr >= failure.fail_rank THEN TRUE ELSE success
    IN  IF st2 = "swap"
        THEN [success |-> success, max_pass_rank |-> max_pass_rank, k |-> k]
        ELSE IF status2 = "fail"
        THEN IF same_station /\ same_code
             THEN [success |-> FALSE, max_pass_rank |-> -1, k |-> k]
             ELSE [success |-> TRUE, max_pass_rank |-> max_pass_rank, k |-> k]
        ELSE IF status2 = "pass"
        THEN IF mpr = max_flow_rank
             THEN [success |-> succ, max_pass_rank |-> mpr, k |-> k]
             ELSE SubScan(failure, rows, station_order, max_flow_rank,
                          k + 1, succ, mpr)
        ELSE SubScan(failure, rows, station_order, max_flow_rank,
                     k + 1, success, max_pass_rank)

\* The locals of _evaluate_repair_attempt when it returns.
EvalLocals(attempt, failure, rows, station_order, max_flow_rank) ==
    SubScan(failure, rows, station_order, max_flow_rank,
            attempt.swap_index + 1, FALSE, -1)

_evaluate_repair_attempt(attempt, failure, rows, station_order, max_flow_rank) ==
    EvalLocals(attempt, failure, rows, station_order, max_flow_rank).success

(***************************************************************************)
(* Metricas.                                                               *)
(***************************************************************************)
\* The pairs (exitos, carga_relativa in thousandths) for which the double
\* exitos + 0.5 * carga_relativa lies just above the midpoint of two
\* thousandths, so that round(.., 3) goes up (IEEE-754 doubles, for up to 6
\* failures and 3 technicians and for the 11 failures / 6 technicians of
\* SAMPLE_CSV); every other midpoint lies just below and goes down.
ScoreRoundsUp ==
    { <<0, 167>>, <<0, 333>>, <<0, 545>>, <<0, 667>>, <<0, 1667>>,
      <<0, 3273>>, <<0, 5455>>, <<1, 333>>, <<1, 833>>, <<1, 1091>>,
      <<1, 1333>>, <<1, 2727>>, <<1, 5455>>, <<2, 333>>, <<2, 833>>,
      <<2, 1091>>, <<2, 1333>>, <<2, 2727>>, <<2, 5455>>, <<3, 833>>,
      <<3, 1333>>, <<3, 2727>>, <<3, 5455>>, <<4, 833>>, <<4, 1333>>,
      <<4, 2727>>, <<4, 5455>>, <<5, 833>>, <<5, 2727>>, <<5, 5455>> }

\* round(ex + 0.5 * carga_rel, 3) in thousandths.
Score(ex, carga_rel) ==
    LET twice == 2000 * ex + carga_rel
    IN  IF twice % 2 = 0 THEN twice \div 2
        ELSE IF <<ex, carga_rel>> \in ScoreRoundsUp THEN (twice + 1) \div 2
        ELSE (twice - 1) \div 2

\* Variant: the subtraction of line 230 has its operands swapped.
MetricsRow_swapped(badge, it, ex, total_failures, tecnicos_activos) ==
    LET carga_rel == IF tecnicos_activos # 0 /\ total_failures # 0
                     THEN RoundDiv(it * 1000 * tecnicos_activos, total_failures)
                     ELSE 0
    IN  [badge          |-> badge,
         intentos       |-> it,
         exitos         |-> ex,
         ineficiencias  |-> ex - it,
         eficiencia_pct |-> IF it # 0 THEN RoundDiv(ex * 10000, it) ELSE 0,
         carga_relativa |-> carga_rel,
         score          |-> Score(ex, carga_rel)]

\* One element of rows_out (lines 228-242).
MetricsRow(badge, it, ex, total_failures, tecnicos_activos) ==
    LET carga_rel == IF tecnicos_activos # 0 /\ total_failures # 0
                     THEN RoundDiv(it * 1000 * tecnicos_activos, total_failures)
                     ELSE 0
    IN  [badge          |-> badge,
         intentos       |-> it,
         exitos         |-> ex,
         ineficiencias  |-> it - ex,
         eficiencia_pct |-> IF it # 0 THEN RoundDiv(ex * 10000, it) ELSE 0,
         carga_relativa |-> carga_rel,
         score          |-> Score(ex, carga_rel)]

\* a sorts strictly before b under by=["score", "exitos", "intentos"],
\* ascending=[False, False, False].
ScoreKeyGreater(a, b) ==
    \/ a.score > b.score
    \/ a.score = b.score /\ a.exitos > b.exitos
    \/ a.score = b.score /\ a.exitos = b.exitos /\ a.intentos > b.intentos

ScoreKeyEq(a, b) ==
    a.score = b.score /\ a.exitos = b.exitos /\ a.intentos = b.intentos

\* Variant: the rows stay in the insertion order of the attempts dict.
SortScorecard_unsorted(rows_out) == rows_out

\* df_result.sort_values(...).reset_index(drop=True): row n goes behind the
\* rows with a greater key and the earlier rows with an equal key.
SortScorecard(rows_out) ==
    LET pos == [n \in 1..Len(rows_out) |->
                   1 + Cardinality({m \in 1..Len(rows_out) :
                           \/ ScoreKeyGreater(rows_out[m], rows_out[n])
                           \/ ScoreKeyEq(rows_out[m], rows_out[n]) /\ m < n})] \o << >>
    IN  [p \in 1..Len(rows_out) |->
            rows_out[CHOOSE n \in 1..Len(rows_out) : pos[n] = p]]

\* Variant: the expected load divides the attributed failures only.
_build_metrics_dataframe_attributed_only(attempts_, successes_, total_failures_) ==
    LET tecnicos_activos == Len(attempts_)
        attributed       == Len(SelectSeq(attempts_, LAMBDA e : e.val = 1))
                            + 2 * Len(SelectSeq(attempts_, LAMBDA e : e.val = 2))
                            + 3 * Len(SelectSeq(attempts_, LAMBDA e : e.val >= 3))
        carga_esperada   == IF tecnicos_activos # 0
                            THEN <<attributed, tecnicos_activos>>
                            ELSE <<0, 1>>
        rows_out == [n \in 1..Len(attempts_) |->
                        MetricsRow(attempts_[n].key, attempts_[n].val,
                                   DictGet(successes_, attempts_[n].key, 0),
                                   attributed, tecnicos_activos)]
    IN  [df_result |-> SortScorecard(rows_out),
         meta      |-> [fallas_totales   |-> total_failures_,
                        tecnicos_activos |-> tecnicos_activos,
                        carga_esperada   |-> carga_esperada]]

\* Variant: the division of line 225 is not guarded by "if tecnicos_activos"
\* (a zero denominator stands for the ZeroDivisionError).
_build_metrics_dataframe_unguarded(attempts_, successes_, total_failures_) ==
    LET tecnicos_activos == Len(attempts_)
        carga_esperada   == <<total_failures_, tecnicos_activos>>
        rows_out == [n \in 1..Len(attempts_) |->
                        MetricsRow(attempts_[n].key, attempts_[n].val,
                                   DictGet(successes_, attempts_[n].key, 0),
                                   total_failures_, tecnicos_activos)]
    IN  [df_result |-> SortScorecard(rows_out),
         meta      |-> [fallas_totales   |-> total_failures_,
                        tecnicos_activos |-> tecnicos_activos,
                        carga_esperada   |-> carga_esperada]]

\* Returns (df_result, meta); carga_esperada is the fraction <<num, den>>.
_build_metrics_dataframe(attempts_, successes_, total_failures_) ==
    LET tecnicos_activos == Len(attempts_)
        carga_esperada   == IF tecnicos_activos # 0
                            THEN <<total_failures_, tecnicos_activos>>
                            ELSE <<0, 1>>
        rows_out == [n \in 1..Len(attempts_) |->
                        MetricsRow(attempts_[n].key, attempts_[n].val,
                                   DictGet(successes_, attempts_[n].key, 0),
                                   total_failures_, tecnicos_activos)]
    IN  [df_result |-> SortScorecard(rows_out),
         meta      |-> [fallas_totales   |-> total_failures_,
                        tecnicos_activos |-> tecnicos_activos,
                        carga_esperada   |-> carga_esperada]]

(***************************************************************************)
(* Inputs of compute_performance_from_df.                                  *)
(***************************************************************************)
\* Rows the generated event logs are built from (raw, before normalisation).
EventPool ==
    { Ev("u1", " SWAP", "Fail", "", "b1"),
      Ev("u1", "swap", "pass", "", ""),
      Ev("u1", "fto", "pass", "", "b1"),
      Ev("u1", "fto", "fail", "E1 ", "b1"),
      Ev("u1", "fto", "fail", "e2", "b1"),
      Ev("u1", "fto", "fail", "", "b1"),
      Ev("u1", "runnin", "pass", "", "b1"),
      Ev("u1", "runnin", "fail", "e1", "b1"),
      Ev("u2", "swap", "pass", "", "b2"),
      Ev("u2", "fto", "fail", "e1", "") }

EventLogs ==
    UNION {[1..n -> EventPool] : n \in 0..MaxRows} \cup {SAMPLE_CSV}

\* A caller-supplied station_order.
OrderArg(map) == [is_none |-> FALSE, map |-> map]

\* station_order=None.
NoOrderArg == [is_none |-> TRUE, map |-> << >>]

\* A caller's map that ranks swap 0 and fto below test4, and leaves runnin
\* unranked.
FlowOrder ==
    [st \in {"swap", "fto", "test4"} |->
        CASE st = "swap" -> 0 [] st = "fto" -> 1 [] OTHER -> 2]

\* A caller's map that ranks swap above 0.
SwapRankedOrder ==
    [st \in {"swap", "fto"} |-> CASE st = "swap" -> 1 [] OTHER -> 2]

\* A row of a frame that has an event_id column, as read by
\* pandas.read_csv(dtype=str, keep_default_na=False).
EvId(sn, station, status, error_code, badge, event_id) ==
    [sn |-> sn, station |-> station, status |-> status,
     error_code |-> error_code, badge |-> badge, event_id |-> event_id]

\* Rows the generated event logs with an event_id column are built from.
EventIdPool ==
    {EvId("u1", "fto", "fail", "e1", "b1", id) : id \in {"2", "9", "10"}}
    \cup {EvId("u1", "swap", "pass", "", "b1", id) : id \in {"2", "9", "10"}}

EventIdLogs == UNION {[1..n -> EventIdPool] : n \in 1..MaxRowsEventId}

\* The (df, station_order) arguments tried: every event log with None and
\* with FlowOrder, the short event logs with SwapRankedOrder, the event logs
\* with an event_id column with None.
Inputs ==
    (EventLogs \X {NoOrderArg, OrderArg(FlowOrder)})
    \cup ((UNION {[1..n -> EventPool] : n \in 0..MaxRowsSwapRanked})
          \X {OrderArg(SwapRankedOrder)})
    \cup (EventIdLogs \X {NoOrderArg})

(***************************************************************************)
(* app/tasks.py: file names, period keys and report paths.                 *)
(***************************************************************************)
\* The input file "<kind>_<tag>_test_report.csv" of dir_path.
File(kind, tag) == [kind |-> kind, tag |-> tag]

\* Input files that can be present in dir_path.
FilePool ==
    { File("week", "8"), File("week", "10"), File("week", "x"),
      File("month", "2"), File("month", "11") }

\* int(m.group(2)) for the tags that are digit strings; a tag outside the
\* domain gives the regular expression (week|month)_(\d+) no match.
TagNumber == [t \in {"2", "8", "10", "11"} |->
                 CASE t = "2" -> 2 [] t = "8" -> 8 [] t = "10" -> 10 [] OTHER -> 11]

\* Python string order of the second components of the keys.
KindRank(kind) == CASE kind = "month" -> 1 [] kind = "week" -> 2 [] OTHER -> 3

_period_key(f) ==
    IF f.tag \in DOMAIN TagNumber THEN <<TagNumber[f.tag], f.kind>>
    ELSE <<0, "zzz">>

\* Tuple comparison _period_key(a) <= _period_key(b).
PeriodKeyLeq(a, b) ==
    LET ka == _period_key(a)
        kb == _period_key(b)
    IN  \/ ka[1] < kb[1]
        \/ ka[1] = kb[1] /\ KindRank(ka[2]) <= KindRank(kb[2])

\* The lists of the elements of the set S, each once.
ListsOf(S) ==
    {q \in [1..Cardinality(S) -> S] :
        \A a, b \in 1..Cardinality(S) : a # b => q[a] # q[b]}

\* The possible values of sorted(glob(kind + "_*_test_report.csv"),
\* key=_period_key): glob lists the files of that kind in an order of the
\* file system's choosing and sorted() is stable, so files with equal keys
\* come in any order.
SortedMatches(present, kind) ==
    {q \in ListsOf({f \in present : f.kind = kind}) :
        \A a, b \in 1..Len(q) : a < b => PeriodKeyLeq(q[a], q[b])}

\* reports_dir / (Path(csv).stem + "_report.txt")
ReportPath(f) == [report_of |-> f]

\* The executions of run_performance_if_reports: one and the next scheduled
\* one, which may start before the first has returned.
Execs == {"run1", "run2"}

(***************************************************************************)
(* compute_performance_from_df as a state machine.                         *)
(***************************************************************************)
VARIABLES
    df_in,          \* argument df
    order_arg,      \* argument station_order
    pc,             \* "start", "walk", "done"
    df,             \* the prepared frame
    station_order,  \* the resolved rank map
    max_flow_rank,
    groups,         \* the per-sn record lists of the groupby, in loop order
    g,              \* 1-based number of the group being walked
    i,              \* cursor of the generator _iter_failures_for_sn
    attempts,
    successes,
    total_failures,
    failure,        \* the failure of the last loop iteration
    attempt,        \* its attempt (None when unattributed)
    scan,           \* the locals of its evaluation when it returned
    df_result,
    meta

\* State of app/tasks.py: the report directories and, per execution of
\* run_performance_if_reports, its locals.
VARIABLES
    dir_files,        \* the input files present in dir_path
    reports,          \* report path -> "absent", "partial" or "complete"
    task_pc,          \* execution -> "idle", "week", "month", "unlink",
                      \*              "returned" or "raised"
    week_matches,
    month_matches,
    out,
    processed_paths,
    pos,              \* execution -> elements of the current for loop done
    logged,           \* execution -> inputs passed to logger.exception
    warned            \* execution -> inputs passed to logger.warning

VARIABLES
    session,          \* use of get_session -> the Session object it created
    ctx               \* use of get_session -> where the use stands

perf_vars == <<df_in, order_arg, pc, df, station_order, max_flow_rank, groups,
               g, i, attempts, successes, total_failures, failure, attempt,
               scan, df_result, meta>>

task_vars == <<dir_files, reports, task_pc, week_matches, month_matches, out,
               processed_paths, pos, logged, warned>>

db_vars == <<session, ctx>>

vars == <<perf_vars, task_vars, db_vars>>

\* No use of get_session exists.
DbIdle ==
    /\ session = << >>
    /\ ctx = << >>

\* The directories are empty and no execution of the task exists: the
\* per-execution variables are functions with an empty domain.
TaskIdle ==
    /\ dir_files = {}
    /\ reports = << >>
    /\ task_pc = << >>
    /\ week_matches = << >>
    /\ month_matches = << >>
    /\ out = << >>
    /\ processed_paths = << >>
    /\ pos = << >>
    /\ logged = << >>
    /\ warned = << >>

NoFailure == [sn |-> "", fail_index |-> -1, station |-> "", error_code |-> "",
              fail_rank |-> -1]

NoScan == [success |-> FALSE, max_pass_rank |-> -1, k |-> -1]

Init ==
    /\ \E inp \in Inputs : df_in = inp[1] /\ order_arg = inp[2]
    /\ pc = "start"
    /\ df = << >>
    /\ station_order = << >>
    /\ max_flow_rank = 0
    /\ groups = << >>
    /\ g = 1
    /\ i = 0
    /\ attempts = << >>
    /\ successes = << >>
    /\ total_failures = 0
    /\ failure = NoFailure
    /\ attempt = None
    /\ scan = NoScan
    /\ df_result = << >>
    /\ meta = [fallas_totales |-> 0, tecnicos_activos |-> 0,
               carga_esperada |-> <<0, 1>>, station_order |-> << >>]
    /\ TaskIdle
    /\ DbIdle

\* Line 281 and the groupby of line 288.
Prepare ==
    /\ pc = "start"
    /\ \E prep \in {_prepare_dataframe(df_in, order_arg)} :
          /\ df' = prep.df
          /\ station_order' = prep.station_order
          /\ max_flow_rank' = prep.max_flow_rank
          /\ groups' = GroupBySn(prep.df)
    /\ pc' = "walk"
    /\ UNCHANGED <<df_in, order_arg, g, i, attempts, successes, total_failures,
                   failure, attempt, scan, df_result, meta>>
    /\ UNCHANGED task_vars
    /\ UNCHANGED db_vars

\* Variant: after a failure whose next 'swap' row is at position j, the walk
\* of the unit resumes at position j + 1.
ProcessFailure_resume_after_swap ==
    /\ pc = "walk"
    /\ g <= Len(groups)
    /\ \E rows \in {groups[g]} :
       \E fi \in {NextFailureIndex(rows, station_order, i)} :
          /\ fi < Len(rows)
          /\ \E f \in {FailureEvent(rows, station_order, fi)} :
             \E att \in {_find_repair_attempt(f, rows)} :
                /\ failure' = f
                /\ attempt' = att
                /\ total_failures' = total_failures + 1
                /\ i' = IF NextSwapIndex(rows, fi + 1) < Len(rows)
                        THEN NextSwapIndex(rows, fi + 1) + 1
                        ELSE fi + 1
                /\ IF att.is_none
                   THEN /\ scan' = NoScan
                        /\ UNCHANGED <<attempts, successes>>
                   ELSE /\ scan' = EvalLocals(att, f, rows, station_order,
                                              max_flow_rank)
                        /\ attempts' = DictInc(attempts, att.technician_badge)
                        /\ successes' =
                              IF _evaluate_repair_attempt(att, f, rows,
                                     station_order, max_flow_rank)
                              THEN DictInc(successes, att.technician_badge)
                              ELSE successes
    /\ UNCHANGED <<df_in, order_arg, pc, df, station_order, max_flow_rank,
                   groups, g, df_result, meta>>
    /\ UNCHANGED task_vars
    /\ UNCHANGED db_vars

\* Variant: after an attempt was evaluated, the walk of the unit resumes
\* behind the row where its sub-scan stopped.
ProcessFailure_resume_after_scan ==
    /\ pc = "walk"
    /\ g <= Len(groups)
    /\ \E rows \in {groups[g]} :
       \E fi \in {NextFailureIndex(rows, station_order, i)} :
          /\ fi < Len(rows)
          /\ \E f \in {FailureEvent(rows, station_order, fi)} :
             \E att \in {_find_repair_attempt(f, rows)} :
                /\ failure' = f
                /\ attempt' = att
                /\ total_failures' = total_failures + 1
                /\ IF att.is_none
                   THEN /\ scan' = NoScan
                        /\ i' = fi + 1
                        /\ UNCHANGED <<attempts, successes>>
                   ELSE /\ scan' = EvalLocals(att, f, rows, station_order,
                                              max_flow_rank)
                        /\ i' = EvalLocals(att, f, rows, station_order,
                                           max_flow_rank).k + 1
                        /\ attempts' = DictInc(attempts, att.technician_badge)
                        /\ successes' =
                              IF _evaluate_repair_attempt(att, f, rows,
                                     station_order, max_flow_rank)
                              THEN DictInc(successes, att.technician_badge)
                              ELSE successes
    /\ UNCHANGED <<df_in, order_arg, pc, df, station_order, max_flow_rank,
                   groups, g, df_result, meta>>
    /\ UNCHANGED task_vars
    /\ UNCHANGED db_vars

\* One iteration of the loop of line 292: the generator yields the next
\* failure of the current unit and the body (lines 293-311) runs.
ProcessFailure ==
    /\ pc = "walk"
    /\ g <= Len(groups)
    /\ \E rows \in {groups[g]} :
       \E fi \in {NextFailureIndex(rows, station_order, i)} :
          /\ fi < Len(rows)
          /\ \E f \in {FailureEvent(rows, station_order, fi)} :
             \E att \in {_find_repair_attempt(f, rows)} :
                /\ failure' = f
                /\ attempt' = att
                /\ total_failures' = total_failures + 1
                /\ i' = fi + 1
                /\ IF att.is_none
                   THEN /\ scan' = NoScan
                        /\ UNCHANGED <<attempts, successes>>
                   ELSE /\ scan' = EvalLocals(att, f, rows, station_order,
                                              max_flow_rank)
                        /\ attempts' = DictInc(attempts, att.technician_badge)
                        /\ successes' =
                              IF _evaluate_repair_attempt(att, f, rows,
                                     station_order, max_flow_rank)
                              THEN DictInc(successes, att.technician_badge)
                              ELSE successes
    /\ UNCHANGED <<df_in, order_arg, pc, df, station_order, max_flow_rank,
                   groups, g, df_result, meta>>
    /\ UNCHANGED task_vars
    /\ UNCHANGED db_vars

\* The generator is exhausted for the current unit: the loop of line 288
\* moves to the next group.
NextUnit ==
    /\ pc = "walk"
    /\ g <= Len(groups)
    /\ NextFailureIndex(groups[g], station_order, i) >= Len(groups[g])
    /\ g' = g + 1
    /\ i' = 0
    /\ UNCHANGED <<df_in, order_arg, pc, df, station_order, max_flow_rank,
                   groups, attempts, successes, total_failures, failure,
                   attempt, scan, df_result, meta>>
    /\ UNCHANGED task_vars
    /\ UNCHANGED db_vars

\* Lines 314-322, after the last group.
Build ==
    /\ pc = "walk"
    /\ g > Len(groups)
    /\ \E built \in {_build_metrics_dataframe(attempts, successes, total_failures)} :
          /\ df_result' = built.df_result
          /\ meta' = [fallas_totales   |-> built.meta.fallas_totales,
                      tecnicos_activos |-> built.meta.tecnicos_activos,
                      carga_esperada   |-> built.meta.carga_esperada,
                      station_order    |-> station_order]
    /\ pc' = "done"
    /\ UNCHANGED <<df_in, order_arg, df, station_order, max_flow_rank, groups,
                   g, i, attempts, successes, total_failures, failure, attempt,
                   scan>>
    /\ UNCHANGED task_vars
    /\ UNCHANGED db_vars

Next == Prepare \/ ProcessFailure \/ NextUnit \/ Build

Spec == Init /\ [][Next]_vars

(***************************************************************************)
(* run_performance_if_reports as a state machine, one step per loop        *)
(* iteration.  What run_performance_from_csv and write_txt_report do with  *)
(* a file (return or raise) and whether unlink raises is the environment's *)
(* choice.                                                                 *)
(***************************************************************************)
\* compute_performance_from_df is not running.
PerfIdle ==
    /\ df_in = << >>
    /\ order_arg = NoOrderArg
    /\ pc = "start"
    /\ df = << >>
    /\ station_order = << >>
    /\ max_flow_rank = 0
    /\ groups = << >>
    /\ g = 1
    /\ i = 0
    /\ attempts = << >>
    /\ successes = << >>
    /\ total_failures = 0
    /\ failure = NoFailure
    /\ attempt = None
    /\ scan = NoScan
    /\ df_result = << >>
    /\ meta = [fallas_totales |-> 0, tecnicos_activos |-> 0,
               carga_esperada |-> <<0, 1>>, station_order |-> << >>]

TaskInit ==
    /\ PerfIdle
    /\ dir_files \in {S \in SUBSET FilePool : Cardinality(S) <= MaxFiles}
    /\ reports = [r \in {ReportPath(f) : f \in FilePool} |-> "absent"]
    /\ task_pc = [e \in Execs |-> "idle"]
    /\ week_matches = [e \in Execs |-> << >>]
    /\ month_matches = [e \in Execs |-> << >>]
    /\ out = [e \in Execs |-> [week |-> << >>, month |-> << >>]]
    /\ processed_paths = [e \in Execs |-> << >>]
    /\ pos = [e \in Execs |-> 0]
    /\ logged = [e \in Execs |-> << >>]
    /\ warned = [e \in Execs |-> << >>]
    /\ DbIdle

\* Lines 56-69; the second execution is scheduled after the first.
TaskStart(e) ==
    /\ task_pc[e] = "idle"
    /\ e = "run2" => task_pc["run1"] # "idle"
    /\ \E wm \in SortedMatches(dir_files, "week") :
       \E mm \in SortedMatches(dir_files, "month") :
          /\ week_matches' = [week_matches EXCEPT ![e] = wm]
          /\ month_matches' = [month_matches EXCEPT ![e] = mm]
    /\ task_pc' = [task_pc EXCEPT ![e] = "week"]
    /\ pos' = [pos EXCEPT ![e] = 0]
    /\ UNCHANGED <<dir_files, reports, out, processed_paths, logged, warned>>
    /\ UNCHANGED perf_vars
    /\ UNCHANGED db_vars

\* Variant: the body of the loop of line 72 is not in a try block, so an
\* exception leaves the task.
ProcessWeek_unguarded(e) ==
    /\ task_pc[e] = "week"
    /\ pos[e] < Len(week_matches[e])
    /\ LET week_csv == week_matches[e][pos[e] + 1]
           week_txt == ReportPath(week_csv)
       IN  \/ /\ week_csv \in dir_files
              /\ reports' = [reports EXCEPT ![week_txt] = "complete"]
              /\ out' = [out EXCEPT ![e].week = Append(@, week_txt)]
              /\ processed_paths' =
                    [processed_paths EXCEPT ![e] = Append(@, week_csv)]
              /\ pos' = [pos EXCEPT ![e] = @ + 1]
              /\ UNCHANGED task_pc
           \/ /\ task_pc' = [task_pc EXCEPT ![e] = "raised"]
              /\ UNCHANGED <<reports, out, processed_paths, pos>>
           \/ /\ week_csv \in dir_files
              /\ \E st \in {reports[week_txt], "partial"} :
                    reports' = [reports EXCEPT ![week_txt] = st]
              /\ task_pc' = [task_pc EXCEPT ![e] = "raised"]
              /\ UNCHANGED <<out, processed_paths, pos>>
    /\ UNCHANGED <<dir_files, week_matches, month_matches, logged, warned>>
    /\ UNCHANGED perf_vars
    /\ UNCHANGED db_vars

\* One iteration of the loop of line 72 (lines 73-81).
ProcessWeek(e) ==
    /\ task_pc[e] = "week"
    /\ pos[e] < Len(week_matches[e])
    /\ LET week_csv == week_matches[e][pos[e] + 1]
           week_txt == ReportPath(week_csv)
       IN  \/ \* lines 74-79 run to the end
              /\ week_csv \in dir_files
              /\ reports' = [reports EXCEPT ![week_txt] = "complete"]
              /\ out' = [out EXCEPT ![e].week = Append(@, week_txt)]
              /\ processed_paths' =
                    [processed_paths EXCEPT ![e] = Append(@, week_csv)]
              /\ UNCHANGED logged
           \/ \* run_performance_from_csv raises (line 74)
              /\ logged' = [logged EXCEPT ![e] = Append(@, week_csv)]
              /\ UNCHANGED <<reports, out, processed_paths>>
           \/ \* write_txt_report raises (line 76), before or after it has
              \* opened the report file
              /\ week_csv \in dir_files
              /\ \E st \in {reports[week_txt], "partial"} :
                    reports' = [reports EXCEPT ![week_txt] = st]
              /\ logged' = [logged EXCEPT ![e] = Append(@, week_csv)]
              /\ UNCHANGED <<out, processed_paths>>
    /\ pos' = [pos EXCEPT ![e] = @ + 1]
    /\ UNCHANGED <<dir_files, task_pc, week_matches, month_matches, warned>>
    /\ UNCHANGED perf_vars
    /\ UNCHANGED db_vars

\* The loop of line 72 is over.
EndWeek(e) ==
    /\ task_pc[e] = "week"
    /\ pos[e] = Len(week_matches[e])
    /\ task_pc' = [task_pc EXCEPT ![e] = "month"]
    /\ pos' = [pos EXCEPT ![e] = 0]
    /\ UNCHANGED <<dir_files, reports, week_matches, month_matches, out,
                   processed_paths, logged, warned>>
    /\ UNCHANGED perf_vars
    /\ UNCHANGED db_vars

\* One iteration of the loop of line 84 (lines 85-93).
ProcessMonth(e) ==
    /\ task_pc[e] = "month"
    /\ pos[e] < Len(month_matches[e])
    /\ LET month_csv == month_matches[e][pos[e] + 1]
           month_txt == ReportPath(month_csv)
       IN  \/ \* lines 86-91 run to the end
              /\ month_csv \in dir_files
              /\ reports' = [reports EXCEPT ![month_txt] = "complete"]
              /\ out' = [out EXCEPT ![e].month = Append(@, month_txt)]
              /\ processed_paths' =
                    [processed_paths EXCEPT ![e] = Append(@, month_csv)]
              /\ UNCHANGED logged
           \/ \* run_performance_from_csv raises (line 86)
              /\ logged' = [logged EXCEPT ![e] = Append(@, month_csv)]
              /\ UNCHANGED <<reports, out, processed_paths>>
           \/ \* write_txt_report raises (line 88)
              /\ month_csv \in dir_files
              /\ \E st \in {reports[month_txt], "partial"} :
                    reports' = [reports EXCEPT ![month_txt] = st]
              /\ logged' = [logged EXCEPT ![e] = Append(@, month_csv)]
              /\ UNCHANGED <<out, processed_paths>>
    /\ pos' = [pos EXCEPT ![e] = @ + 1]
    /\ UNCHANGED <<dir_files, task_pc, week_matches, month_matches, warned>>
    /\ UNCHANGED perf_vars
    /\ UNCHANGED db_vars

\* The loop of line 84 is over.
EndMonth(e) ==
    /\ task_pc[e] = "month"
    /\ pos[e] = Len(month_matches[e])
    /\ task_pc' = [task_pc EXCEPT ![e] = "unlink"]
    /\ pos' = [pos EXCEPT ![e] = 0]
    /\ UNCHANGED <<dir_files, reports, week_matches, month_matches, out,
                   processed_paths, logged, warned>>
    /\ UNCHANGED perf_vars
    /\ UNCHANGED db_vars

\* Variant: the unlink of line 98 is not in a try block, so a failure to
\* delete a file leaves the task.
Unlink_unguarded(e) ==
    /\ task_pc[e] = "unlink"
    /\ pos[e] < Len(processed_paths[e])
    /\ LET p == processed_paths[e][pos[e] + 1]
       IN  \/ /\ p \in dir_files
              /\ dir_files' = dir_files \ {p}
              /\ pos' = [pos EXCEPT ![e] = @ + 1]
              /\ UNCHANGED <<warned, task_pc>>
           \/ /\ warned' = [warned EXCEPT ![e] = Append(@, p)]
              /\ task_pc' = [task_pc EXCEPT ![e] = "raised"]
              /\ UNCHANGED <<dir_files, pos>>
    /\ UNCHANGED <<reports, week_matches, month_matches, out,
                   processed_paths, logged>>
    /\ UNCHANGED perf_vars
    /\ UNCHANGED db_vars

\* One iteration of the loop of line 96 (lines 97-100).
Unlink(e) ==
    /\ task_pc[e] = "unlink"
    /\ pos[e] < Len(processed_paths[e])
    /\ LET p == processed_paths[e][pos[e] + 1]
       IN  \/ \* Path(p).unlink() returns
              /\ p \in dir_files
              /\ dir_files' = dir_files \ {p}
              /\ UNCHANGED warned
           \/ \* Path(p).unlink() raises
              /\ warned' = [warned EXCEPT ![e] = Append(@, p)]
              /\ UNCHANGED dir_files
    /\ pos' = [pos EXCEPT ![e] = @ + 1]
    /\ UNCHANGED <<reports, task_pc, week_matches, month_matches, out,
                   processed_paths, logged>>
    /\ UNCHANGED perf_vars
    /\ UNCHANGED db_vars

\* Lines 102-105: the task returns out.
Return(e) ==
    /\ task_pc[e] = "unlink"
    /\ pos[e] = Len(processed_paths[e])
    /\ task_pc' = [task_pc EXCEPT ![e] = "returned"]
    /\ UNCHANGED <<dir_files, reports, week_matches, month_matches, out,
                   processed_paths, pos, logged, warned>>
    /\ UNCHANGED perf_vars
    /\ UNCHANGED db_vars

TaskNext ==
    \E e \in Execs :
        \/ TaskStart(e)
        \/ ProcessWeek(e)
        \/ EndWeek(e)
        \/ ProcessMonth(e)
        \/ EndMonth(e)
        \/ Unlink(e)
        \/ Return(e)

TaskSpec == TaskInit /\ [][TaskNext]_vars

(***************************************************************************)
(* get_session (database.py) as a state machine: one step per statement of *)
(* the generator.  What the body of the with block does, and whether        *)
(* commit, rollback and close return or raise, is the environment's choice. *)
(***************************************************************************)
\* Most operations the body of one use performs on its session.
MaxBodyOps == 2

\* The uses of get_session that run side by side.
Uses == {"use1", "use2"}

\* The classes of what a call can raise: caught by "except Exception" or not
\* (KeyboardInterrupt, SystemExit, GeneratorExit).
ExcClasses == {"Exception", "BaseException"}

\* An exception raised by the body, commit, rollback or close.
Exc(from, class) == [from |-> from, class |-> class]

NoExc == Exc("none", "none")

DbInit ==
    /\ PerfIdle
    /\ TaskIdle
    /\ session = [u \in Uses |->
                     [state |-> "none", pending |-> 0, commits |-> 0,
                      rollbacks |-> 0, closes |-> 0]]
    /\ ctx = [u \in Uses |->
                 [at |-> "idle", exc |-> NoExc, body_exc |-> NoExc,
                  commit_exc |-> NoExc, outcome |-> "none"]]

\* Lines 21-23: the session is created and yielded to the body.
Enter(u) ==
    /\ ctx[u].at = "idle"
    /\ session' = [session EXCEPT ![u].state = "open"]
    /\ ctx' = [ctx EXCEPT ![u].at = "body"]
    /\ UNCHANGED <<perf_vars, task_vars>>

\* The body of the with block uses the session.
BodyOp(u) ==
    /\ ctx[u].at = "body"
    /\ session[u].pending < MaxBodyOps
    /\ session' = [session EXCEPT ![u].pending = @ + 1]
    /\ UNCHANGED <<ctx, perf_vars, task_vars>>

\* The body ends: the generator resumes after the yield of line 23, or the
\* exception of the body is thrown into it at the yield.
BodyEnds(u) ==
    /\ ctx[u].at = "body"
    /\ \/ ctx' = [ctx EXCEPT ![u].at = "commit"]
       \/ \E c \in ExcClasses :
             ctx' = [ctx EXCEPT ![u].at = IF c = "Exception" THEN "except"
                                          ELSE "finally",
                                ![u].exc = Exc("body", c),
                                ![u].body_exc = Exc("body", c)]
    /\ UNCHANGED <<session, perf_vars, task_vars>>

\* Line 24: session.commit() returns or raises.
Commit(u) ==
    /\ ctx[u].at = "commit"
    /\ \/ /\ session' = [session EXCEPT ![u].commits = @ + 1,
                                          ![u].pending = 0]
          /\ ctx' = [ctx EXCEPT ![u].at = "finally"]
       \/ \E c \in ExcClasses :
             /\ session' = [session EXCEPT ![u].commits = @ + 1]
             /\ ctx' = [ctx EXCEPT ![u].at = IF c = "Exception" THEN "except"
                                             ELSE "finally",
                                   ![u].exc = Exc("commit", c),
                                   ![u].commit_exc = Exc("commit", c)]
    /\ UNCHANGED <<perf_vars, task_vars>>

\* Variant: the handler of line 25 has no raise, so the exception ends there.
Rollback_swallows(u) ==
    /\ ctx[u].at = "except"
    /\ session' = [session EXCEPT ![u].rollbacks = @ + 1, ![u].pending = 0]
    /\ \/ ctx' = [ctx EXCEPT ![u].at = "finally", ![u].exc = NoExc]
       \/ ctx' = [ctx EXCEPT ![u].at = "finally",
                             ![u].exc = Exc("rollback", "Exception")]
    /\ UNCHANGED <<perf_vars, task_vars>>

\* Lines 25-27: session.rollback() returns and the exception is raised
\* again, or session.rollback() raises and its exception takes over.
Rollback(u) ==
    /\ ctx[u].at = "except"
    /\ session' = [session EXCEPT ![u].rollbacks = @ + 1, ![u].pending = 0]
    /\ \/ ctx' = [ctx EXCEPT ![u].at = "finally"]
       \/ ctx' = [ctx EXCEPT ![u].at = "finally",
                             ![u].exc = Exc("rollback", "Exception")]
    /\ UNCHANGED <<perf_vars, task_vars>>

\* Lines 28-29: session.close() returns or raises; an exception of close
\* takes over from the one on its way out.
Close(u) ==
    /\ ctx[u].at = "finally"
    /\ session' = [session EXCEPT ![u].closes = @ + 1, ![u].state = "closed",
                                  ![u].pending = 0]
    /\ \/ ctx' = [ctx EXCEPT ![u].at = "exit"]
       \/ ctx' = [ctx EXCEPT ![u].at = "exit",
                             ![u].exc = Exc("close", "Exception")]
    /\ UNCHANGED <<perf_vars, task_vars>>

\* The generator is over: the with statement ends normally or passes the
\* exception on to its caller.
Exit(u) ==
    /\ ctx[u].at = "exit"
    /\ ctx' = [ctx EXCEPT ![u].at = "done",
                          ![u].outcome = IF ctx[u].exc = NoExc THEN "returned"
                                         ELSE "raised"]
    /\ UNCHANGED <<session, perf_vars, task_vars>>

DbNext ==
    \E u \in Uses :
        \/ Enter(u)
        \/ BodyOp(u)
        \/ BodyEnds(u)
        \/ Commit(u)
        \/ Rollback(u)
        \/ Close(u)
        \/ Exit(u)

SessionSpec == DbInit /\ [][DbNext]_vars

(***************************************************************************)
(* Vocabulary of the properties, stated on the rows themselves.            *)
(***************************************************************************)
\* Row r is a fail at a station the resolved map ranks above 0.
FlowFail(r) ==
    /\ r.status = "fail"
    /\ r.station \in DOMAIN station_order
    /\ station_order[r.station] > 0

\* The (group, position) pairs of all flow-station failures of the input.
AllFailures ==
    {gp \in UNION {{<<m, n>> : n \in 0..(Len(groups[m]) - 1)} : m \in 1..Len(groups)} :
        FlowFail(At(groups[gp[1]], gp[2]))}

\* Position j of rows holds the first 'swap' row after position n.
IsNextSwap(rows, n, j) ==
    /\ j > n
    /\ j < Len(rows)
    /\ At(rows, j).station = "swap"
    /\ \A m \in (n + 1)..(j - 1) : At(rows, m).station # "swap"

\* Some 'swap' row follows position n.
HasLaterSwap(rows, n) ==
    \E j \in (n + 1)..(Len(rows) - 1) : At(rows, j).station = "swap"

\* The failure at position n is attributed: its next 'swap' row has a badge.
Attributed(rows, n) ==
    \E j \in (n + 1)..(Len(rows) - 1) :
        IsNextSwap(rows, n, j) /\ At(rows, j).badge # ""

\* Sum of the values of a dict.
RECURSIVE SumVals(_)
SumVals(d) == IF d = << >> THEN 0 ELSE Head(d).val + SumVals(Tail(d))

\* The scorecard row of a badge.
RowOf(badge) == CHOOSE r \in Range(df_result) : r.badge = badge

\* The body of the loop of line 292 has just run for a new failure.
Processed == total_failures' # total_failures

(***************************************************************************)
(* Properties.                                                             *)
(***************************************************************************)
\* C1: for SAMPLE_CSV with an inferred rank map the run ends with 11 total
\* failures, 6 active technicians, expected load 11/6, and the rows
\* 987 -> (4, 4, 0), 456 -> (2, 2, 0), 555 -> (2, 0, 2) as
\* (attempts, successes, inefficiencies).
C1_SampleWeek ==
    (pc = "done" /\ df_in = SAMPLE_CSV /\ order_arg.is_none) =>
        /\ meta.fallas_totales = 11
        /\ meta.tecnicos_activos = 6
        /\ meta.carga_esperada = <<11, 6>>
        /\ {"987", "456", "555"} \subseteq {r.badge : r \in Range(df_result)}
        /\ RowOf("987").intentos = 4 /\ RowOf("987").exitos = 4
        /\ RowOf("987").ineficiencias = 0
        /\ RowOf("456").intentos = 2 /\ RowOf("456").exitos = 2
        /\ RowOf("456").ineficiencias = 0
        /\ RowOf("555").intentos = 2 /\ RowOf("555").exitos = 0
        /\ RowOf("555").ineficiencias = 2

C1_Witness == pc = "done" /\ df_in = SAMPLE_CSV /\ order_arg.is_none

\* C2 as stated: attempts sum to at most total_failures, with equality
\* exactly when every detected failure has SOME later 'swap' row carrying a
\* non-empty badge.
C2_AnyLaterBadge ==
    /\ SumVals(attempts) <= total_failures
    /\ pc = "done" =>
          ((SumVals(attempts) = total_failures) <=>
           \A gp \in AllFailures :
               \E j \in (gp[2] + 1)..(Len(groups[gp[1]]) - 1) :
                   /\ At(groups[gp[1]], j).station = "swap"
                   /\ At(groups[gp[1]], j).badge # "")

\* C2 amended: attempts sum to at most total_failures, with equality exactly
\* when, for every detected failure, the NEXT 'swap' row of its unit exists
\* and carries a non-empty badge.
C2_NextSwapBadge ==
    /\ SumVals(attempts) <= total_failures
    /\ pc = "done" =>
          ((SumVals(attempts) = total_failures) <=>
           \A gp \in AllFailures : Attributed(groups[gp[1]], gp[2]))

C2_Witness ==
    /\ pc = "done"
    /\ SumVals(attempts) > 0
    /\ SumVals(attempts) < total_failures
    /\ \E gp \in AllFailures :
          /\ ~Attributed(groups[gp[1]], gp[2])
          /\ HasLaterSwap(groups[gp[1]], gp[2])

\* C3: every scorecard row has inefficiencies = attempts - successes,
\* inefficiencies >= 0, successes >= 0 and attempts >= 1.
C3_RowCounts ==
    pc = "done" =>
        \A n \in 1..Len(df_result) :
            /\ df_result[n].ineficiencias = df_result[n].intentos - df_result[n].exitos
            /\ df_result[n].ineficiencias >= 0
            /\ df_result[n].exitos >= 0
            /\ df_result[n].exitos <= df_result[n].intentos
            /\ df_result[n].intentos >= 1

C3_Witness ==
    /\ pc = "done"
    /\ \E n \in 1..Len(df_result) : df_result[n].ineficiencias > 0
    /\ \E n \in 1..Len(df_result) : df_result[n].exitos > 0

\* The outcome sub-scan of an attempt whose 'swap' row is at position s
\* examines the row at position k: no row between them is a 'swap' row, a
\* fail, or a pass at the maximum flow rank, and row k is not a 'swap' row.
SeenBySubScan(rows, s, k) ==
    /\ k > s
    /\ k < Len(rows)
    /\ At(rows, k).station # "swap"
    /\ \A m \in (s + 1)..(k - 1) :
          /\ At(rows, m).station # "swap"
          /\ At(rows, m).status # "fail"
          /\ ~(/\ At(rows, m).status = "pass"
               /\ RankOf(station_order, At(rows, m).station) = max_flow_rank)

\* Row r repeats the failure f: a fail at the same station with the same
\* non-empty error code.
Recurs(r, f) ==
    /\ r.status = "fail"
    /\ r.station = f.station
    /\ r.error_code # ""
    /\ r.error_code = f.error_code

\* C4: when the sub-scan of an attempt reaches a fail at the original
\* station with the original non-empty error code, the attempt is not a
\* success (the badge's successes do not change, whatever passes came
\* before) and the sub-scan stops at that row.
C4_RecurrenceIsInefficiency ==
    [][(Processed /\ ~attempt'.is_none) =>
        \A k \in 0..(Len(groups[g]) - 1) :
            (/\ SeenBySubScan(groups[g], attempt'.swap_index, k)
             /\ Recurs(At(groups[g], k), failure')) =>
                /\ scan'.success = FALSE
                /\ scan'.k = k
                /\ successes' = successes
                /\ SumVals(attempts') = SumVals(attempts) + 1]_vars

\* A recurrence was reached after a pass at or beyond the failure's rank.
C4_Witness ==
    /\ pc = "walk"
    /\ g <= Len(groups)
    /\ i = failure.fail_index + 1
    /\ ~attempt.is_none
    /\ scan.k < Len(groups[g])
    /\ scan.k > attempt.swap_index
    /\ Recurs(At(groups[g], scan.k), failure)
    /\ ~scan.success
    /\ \E m \in (attempt.swap_index + 1)..(scan.k - 1) :
          /\ At(groups[g], m).status = "pass"
          /\ RankOf(station_order, At(groups[g], m).station) >= failure.fail_rank

\* C5: a detected failure with no later 'swap' row in its unit, or whose next
\* 'swap' row has an empty badge, adds exactly one to total_failures and
\* changes no badge's attempts or successes; the walk goes on behind it, so
\* at the end every flow-station failure of the input has been counted.
C5_UnattributedFailure ==
    /\ [][(Processed /\ ~Attributed(groups[g], failure'.fail_index)) =>
            /\ total_failures' = total_failures + 1
            /\ attempts' = attempts
            /\ successes' = successes
            /\ i' = failure'.fail_index + 1
            /\ pc' = "walk" /\ g' = g]_vars
    /\ [](pc = "done" => total_failures = Cardinality(AllFailures))

\* An unattributed failure (empty badge on its next 'swap' row) was followed
\* by a later failure of the same unit that was processed in turn.
C5_Witness ==
    /\ pc = "walk"
    /\ g <= Len(groups)
    /\ i = failure.fail_index + 1
    /\ total_failures >= 2
    /\ \E n \in 0..(failure.fail_index - 1) :
          /\ FlowFail(At(groups[g], n))
          /\ HasLaterSwap(groups[g], n)
          /\ ~Attributed(groups[g], n)
          /\ \E j \in (n + 1)..(failure.fail_index - 1) :
                IsNextSwap(groups[g], n, j)

\* C6: with no rank map supplied, 'swap' is in the resolved map exactly when
\* the (normalised) input has a 'swap' row, and then with rank 0; every
\* other station of the input has the rank 1..N given by the order of first
\* occurrence over the input rows as supplied, and max_flow_rank is N.
C6_InferredOrder ==
    (pc # "start" /\ order_arg.is_none) =>
        LET st_in    == [n \in 1..Len(df_in) |-> StripLower(df_in[n].station)]
            flow     == Range(st_in) \ {"swap"}
            first(t) == CHOOSE n \in 1..Len(st_in) :
                            st_in[n] = t /\ \A m \in 1..(n - 1) : st_in[m] # t
        IN  /\ ("swap" \in DOMAIN station_order) <=> ("swap" \in Range(st_in))
            /\ "swap" \in DOMAIN station_order => station_order["swap"] = 0
            /\ DOMAIN station_order \ {"swap"} = flow
            /\ \A t \in flow :
                  station_order[t] = Cardinality({u \in flow : first(u) <= first(t)})
            /\ {station_order[t] : t \in flow} = 1..Cardinality(flow)
            /\ max_flow_rank = Cardinality(flow)

\* The first row of the sorted frame is at the station ranked 2: the order of
\* first occurrence differs before and after the sort by unit.
C6_Witness ==
    /\ pc # "start"
    /\ order_arg.is_none
    /\ Len(groups) >= 2
    /\ "swap" \in DOMAIN station_order
    /\ groups[1][1].station # "swap"
    /\ station_order[groups[1][1].station] = 2

\* Row a does not sort behind row b: (score, exitos, intentos) of a is
\* lexicographically at least that of b.
KeyAtLeast(a, b) ==
    \/ a.score > b.score
    \/ a.score = b.score /\ a.exitos > b.exitos
    \/ a.score = b.score /\ a.exitos = b.exitos /\ a.intentos >= b.intentos

\* C7: the scorecard is in non-increasing order of (score, successes,
\* attempts), sorting it again changes nothing, and its rows carry the
\* counts merged over all units.
C7_ScorecardSorted ==
    pc = "done" =>
        /\ \A n \in 1..(Len(df_result) - 1) :
              KeyAtLeast(df_result[n], df_result[n + 1])
        /\ SortScorecard(df_result) = df_result
        /\ Len(df_result) = Len(attempts)
        /\ \A n \in 1..Len(df_result) :
              /\ df_result[n].intentos = DictGet(attempts, df_result[n].badge, 0)
              /\ df_result[n].exitos = DictGet(successes, df_result[n].badge, 0)

\* The sort moved a badge that made its first attempt later to the top.
C7_Witness ==
    /\ pc = "done"
    /\ Len(df_result) >= 2
    /\ df_result[1].badge # attempts[1].key
    /\ ~KeyAtLeast(df_result[2], df_result[1])

\* C8 as stated: for every rank map, a 'swap' row is never counted as a
\* failure (the failure just processed is not at 'swap', and at the end
\* total_failures counts only rows at other stations), and never serves as
\* an observation of a sub-scan (no 'swap' row lies before the row where the
\* sub-scan stopped, and a sub-scan that stopped at a 'swap' row has the
\* outcome it has when the rows end before that row).
C8_SwapNeverObserved ==
    /\ failure.station # "swap"
    /\ pc = "done" =>
          total_failures =
              Cardinality({gp \in AllFailures :
                              At(groups[gp[1]], gp[2]).station # "swap"})
    /\ (pc = "walk" /\ g <= Len(groups) /\ i = failure.fail_index + 1
        /\ ~attempt.is_none) =>
          /\ \A m \in (attempt.swap_index + 1)..(scan.k - 1) :
                At(groups[g], m).station # "swap"
          /\ (scan.k < Len(groups[g]) /\ At(groups[g], scan.k).station = "swap") =>
                scan.success =
                    EvalLocals(attempt, failure, SubSeq(groups[g], 1, scan.k),
                               station_order, max_flow_rank).success

\* The badge on the next 'swap' row after position n.
NextSwapBadge(rows, n) ==
    At(rows, CHOOSE j \in (n + 1)..(Len(rows) - 1) : IsNextSwap(rows, n, j)).badge

\* The badges that were given at least one failure.
AttributedBadges ==
    {NextSwapBadge(groups[gp[1]], gp[2]) :
        gp \in {q \in AllFailures : Attributed(groups[q[1]], q[2])}}

\* C9: active_technicians is the number of scorecard rows and of distinct
\* badges with an attempt; total_failures counts every flow-station failure,
\* attributed or not; expected_load is total_failures / active_technicians,
\* and 0 (with no row at all) when no badge has an attempt.
C9_ExpectedLoad ==
    pc = "done" =>
        /\ meta.tecnicos_activos = Len(df_result)
        /\ meta.tecnicos_activos = Cardinality(AttributedBadges)
        /\ meta.fallas_totales = Cardinality(AllFailures)
        /\ IF AttributedBadges = {}
           THEN meta.carga_esperada[1] = 0 /\ df_result = << >>
           ELSE /\ meta.carga_esperada[2] > 0
                /\ meta.carga_esperada[1] * meta.tecnicos_activos =
                      meta.fallas_totales * meta.carga_esperada[2]
        /\ \A n \in 1..Len(df_result) :
              df_result[n].carga_relativa =
                  RoundDiv(df_result[n].intentos * 1000 * Cardinality(AttributedBadges),
                           Cardinality(AllFailures))

\* A badge with two attempts, and a failure nobody was given.
C9_Witness ==
    /\ pc = "done"
    /\ meta.tecnicos_activos >= 1
    /\ SumVals(attempts) > meta.tecnicos_activos
    /\ meta.fallas_totales > SumVals(attempts)

\* C10: while the walk is on a unit that has no fail at a station ranked
\* above 0, no step changes total_failures, attempts or successes.
C10_UnitWithoutFailures ==
    [][(/\ pc = "walk"
        /\ g <= Len(groups)
        /\ \A n \in 0..(Len(groups[g]) - 1) : ~FlowFail(At(groups[g], n))) =>
            /\ total_failures' = total_failures
            /\ attempts' = attempts
            /\ successes' = successes]_vars

\* The walk has left a unit that has no flow-station failure although it has
\* a fail row and a 'swap' row with a badge.
C10_Witness ==
    /\ pc = "walk"
    /\ g >= 2
    /\ \A n \in 0..(Len(groups[g - 1]) - 1) : ~FlowFail(At(groups[g - 1], n))
    /\ \E n \in 0..(Len(groups[g - 1]) - 1) : At(groups[g - 1], n).status = "fail"
    /\ \E n \in 0..(Len(groups[g - 1]) - 1) :
          /\ At(groups[g - 1], n).station = "swap"
          /\ At(groups[g - 1], n).badge # ""

\* C11: an event log with zero rows is processed to the end: the loop over
\* the units has nothing to walk, and the run returns an empty scorecard with
\* total_failures = 0, active_technicians = 0 and expected_load = 0 (a
\* proper value, not a failed division).
C11_EmptyLog ==
    df_in = << >> =>
        /\ pc = "walk" => (groups = << >> /\ g > Len(groups))
        /\ pc = "done" =>
              /\ df_result = << >>
              /\ total_failures = 0
              /\ meta.fallas_totales = 0
              /\ meta.tecnicos_activos = 0
              /\ meta.carga_esperada[1] = 0
              /\ meta.carga_esperada[2] # 0

C11_Witness == pc = "done" /\ df_in = << >> /\ df_result = << >>

\* The report paths an execution returns for the inputs of a list.
ReportsOf(matches) == {ReportPath(matches[n]) : n \in 1..Len(matches)}

C13_ResumeAfterRepair ==
    [][(Processed /\ i > 0) =>
        \A j \in 0..(Len(groups[g]) - 1) :
            IsNextSwap(groups[g], i - 1, j) => failure'.fail_index > j]_vars

\* C13 amended: the walk of a unit resumes right behind the failure just
\* handled (position i + 1), whether it was attributed or not: the next
\* failure detected is the first fail at a flow station behind it, also when
\* that lies before the 'swap' row the earlier failure was matched to; and it
\* is matched to its own next 'swap' row, which can be the same one.
C13_ResumeAfterFailure ==
    [][Processed =>
        /\ failure'.fail_index >= i
        /\ FlowFail(At(groups[g], failure'.fail_index))
        /\ \A n \in i..(failure'.fail_index - 1) : ~FlowFail(At(groups[g], n))
        /\ i' = failure'.fail_index + 1
        /\ attempt'.is_none <=> ~Attributed(groups[g], failure'.fail_index)
        /\ ~attempt'.is_none =>
              /\ IsNextSwap(groups[g], failure'.fail_index, attempt'.swap_index)
              /\ attempt'.technician_badge = At(groups[g], attempt'.swap_index).badge]_vars

\* Two failures of a unit were matched to the same 'swap' row.
C13_Witness ==
    /\ pc = "walk"
    /\ g <= Len(groups)
    /\ i = failure.fail_index + 1
    /\ ~attempt.is_none
    /\ DictGet(attempts, attempt.technician_badge, 0) >= 2
    /\ \E n \in 0..(failure.fail_index - 1) :
          /\ FlowFail(At(groups[g], n))
          /\ IsNextSwap(groups[g], n, attempt.swap_index)

\* C14: when the sub-scan of an attempt reaches a fail row that does not
\* repeat the original failure (another station, or the same station with a
\* different error code or with one of the two codes empty), the attempt is a
\* success (the badge gains one success) and the sub-scan stops at that row.
C14_DistinctFailIsSuccess ==
    [][(Processed /\ ~attempt'.is_none) =>
        \A k \in 0..(Len(groups[g]) - 1) :
            (/\ SeenBySubScan(groups[g], attempt'.swap_index, k)
             /\ At(groups[g], k).status = "fail"
             /\ ~Recurs(At(groups[g], k), failure')) =>
                /\ scan'.success = TRUE
                /\ scan'.k = k
                /\ DictGet(successes', attempt'.technician_badge, 0)
                      = DictGet(successes, attempt'.technician_badge, 0) + 1]_vars

\* With no pass seen, a repeated fail at the original station made the
\* attempt a success because one of the two error codes is empty.
C14_Witness ==
    /\ pc = "walk"
    /\ g <= Len(groups)
    /\ i = failure.fail_index + 1
    /\ ~attempt.is_none
    /\ scan.k > attempt.swap_index
    /\ scan.k < Len(groups[g])
    /\ At(groups[g], scan.k).status = "fail"
    /\ At(groups[g], scan.k).station = failure.station
    /\ (At(groups[g], scan.k).error_code = "" \/ failure.error_code = "")
    /\ scan.success
    /\ scan.max_pass_rank = -1

\* The ranks (-1 when unranked) of the pass rows that the sub-scan of an
\* attempt with its 'swap' row at position s examines, and -1.
PassRanksSeen(rows, s) ==
    {-1} \cup {RankOf(station_order, At(rows, m).station) :
                  m \in {n \in 0..(Len(rows) - 1) :
                            SeenBySubScan(rows, s, n) /\ At(rows, n).status = "pass"}}

\* The largest element of a non-empty set of integers.
MaxOf(S) == CHOOSE x \in S : \A y \in S : y <= x

\* The sub-scan of an attempt with its 'swap' row at position s examines a
\* fail row.
FailSeen(rows, s) ==
    \E n \in 0..(Len(rows) - 1) :
        SeenBySubScan(rows, s, n) /\ At(rows, n).status = "fail"

\* C15: for every attempt, unless its sub-scan ended at a recurrence of the
\* failure, max_pass_rank ends as the highest rank among the pass rows the
\* sub-scan examined, and as -1 when it examined none or only unranked
\* ones; when the sub-scan examined no fail row, the attempt is a success
\* exactly when that highest rank is at least the failure's rank.
C15_MaxPassRank ==
    [][(Processed /\ ~attempt'.is_none) =>
        LET rows == groups[g]
            s    == attempt'.swap_index
            top  == MaxOf(PassRanksSeen(rows, s))
        IN  /\ (\A n \in 0..(Len(rows) - 1) :
                   SeenBySubScan(rows, s, n) => ~Recurs(At(rows, n), failure'))
                  => scan'.max_pass_rank = top
            /\ ~FailSeen(rows, s) =>
                  /\ scan'.success <=> (top >= failure'.fail_rank)
                  /\ (top >= failure'.fail_rank) =>
                        DictGet(successes', attempt'.technician_badge, 0)
                           = DictGet(successes, attempt'.technician_badge, 0) + 1
                  /\ (top < failure'.fail_rank) => successes' = successes]_vars

\* An attempt became a success by a pass at a station ranked beyond the
\* failure's, with no pass at the failure's own station and no fail seen.
C15_Witness ==
    /\ pc = "walk"
    /\ g <= Len(groups)
    /\ i = failure.fail_index + 1
    /\ ~attempt.is_none
    /\ scan.success
    /\ scan.max_pass_rank > failure.fail_rank
    /\ ~FailSeen(groups[g], attempt.swap_index)
    /\ \A n \in (attempt.swap_index + 1)..(Len(groups[g]) - 1) :
          At(groups[g], n).station # failure.station

\* The position of the first 'swap' row behind position s, len(rows) when
\* there is none.
NextSwapOrEnd(rows, s) ==
    IF HasLaterSwap(rows, s)
    THEN CHOOSE j \in (s + 1)..(Len(rows) - 1) : IsNextSwap(rows, s, j)
    ELSE Len(rows)

\* C16: the sub-scan of an attempt stops at the latest at the next 'swap'
\* row behind the attributed one, and its outcome is the one it has when the
\* unit's rows end before that 'swap' row; when it examined no fail row and
\* no pass row ranked at least as high as the failure, the attempt is counted
\* (one more attempt for the badge) and is not a success.
C16_WindowEndsAtNextRepair ==
    [][(Processed /\ ~attempt'.is_none) =>
        LET rows == groups[g]
            s    == attempt'.swap_index
            lim  == NextSwapOrEnd(rows, s)
        IN  /\ scan'.k <= lim
            /\ scan'.success =
                  _evaluate_repair_attempt(attempt', failure', SubSeq(rows, 1, lim),
                                           station_order, max_flow_rank)
            /\ (/\ ~FailSeen(rows, s)
                /\ MaxOf(PassRanksSeen(rows, s)) < failure'.fail_rank) =>
                  /\ scan'.success = FALSE
                  /\ scan'.k = lim
                  /\ successes' = successes
                  /\ DictGet(attempts', attempt'.technician_badge, 0)
                        = DictGet(attempts, attempt'.technician_badge, 0) + 1]_vars

\* An attempt was left unresolved at the next 'swap' row and is not a
\* success, although behind that row the unit passes a station ranked at
\* least as high as the failure.
C16_Witness ==
    /\ pc = "walk"
    /\ g <= Len(groups)
    /\ i = failure.fail_index + 1
    /\ ~attempt.is_none
    /\ ~scan.success
    /\ scan.k < Len(groups[g])
    /\ At(groups[g], scan.k).station = "swap"
    /\ \E n \in (scan.k + 1)..(Len(groups[g]) - 1) :
          /\ At(groups[g], n).status = "pass"
          /\ RankOf(station_order, At(groups[g], n).station) >= failure.fail_rank

\* C17: when the sub-scan of an attempt reaches a pass row at the station of
\* the maximum flow rank, it stops at that row, and the attempt's outcome is
\* the one it has when the unit's rows end with that row: nothing behind it
\* changes the outcome.
C17_EndOfLineStops ==
    [][(Processed /\ ~attempt'.is_none) =>
        \A k \in 0..(Len(groups[g]) - 1) :
            (/\ SeenBySubScan(groups[g], attempt'.swap_index, k)
             /\ At(groups[g], k).status = "pass"
             /\ RankOf(station_order, At(groups[g], k).station) = max_flow_rank) =>
                /\ scan'.k = k
                /\ scan'.max_pass_rank = max_flow_rank
                /\ scan'.success =
                      _evaluate_repair_attempt(attempt', failure',
                          SubSeq(groups[g], 1, k + 1), station_order, max_flow_rank)
                /\ scan'.success =>
                      DictGet(successes', attempt'.technician_badge, 0)
                         = DictGet(successes, attempt'.technician_badge, 0) + 1]_vars

\* The sub-scan stopped at a pass of the last station with the attempt a
\* success, and the unit fails again at the original station with the
\* original error code before any further 'swap' row.
C17_Witness ==
    /\ pc = "walk"
    /\ g <= Len(groups)
    /\ i = failure.fail_index + 1
    /\ ~attempt.is_none
    /\ scan.success
    /\ scan.k < Len(groups[g])
    /\ At(groups[g], scan.k).status = "pass"
    /\ RankOf(station_order, At(groups[g], scan.k).station) = max_flow_rank
    /\ \E n \in (scan.k + 1)..(Len(groups[g]) - 1) :
          /\ Recurs(At(groups[g], n), failure)
          /\ \A m \in (scan.k + 1)..n : At(groups[g], m).station # "swap"

\* The flow-station failures whose next 'swap' row carries the badge b.
FailuresOf(b) ==
    {gp \in AllFailures :
        /\ Attributed(groups[gp[1]], gp[2])
        /\ NextSwapBadge(groups[gp[1]], gp[2]) = b}

\* C18: a failure that lies behind the 'swap' row of the previous attempt of
\* its unit, with no 'swap' row in between (inside that attempt's window), is
\* processed like any other: it adds one to total_failures and, when its own
\* next 'swap' row has a badge, one attempt to that badge; the cursor of the
\* walk does not depend on where a sub-scan stopped.  At the end every
\* flow-station failure was counted and every badge has one attempt per
\* failure whose next 'swap' row carries it.
C18_FailureInsideWindow ==
    /\ [][(/\ Processed
           /\ i > 0
           /\ ~attempt.is_none
           /\ failure'.fail_index > attempt.swap_index
           /\ \A n \in (attempt.swap_index + 1)..failure'.fail_index :
                 At(groups[g], n).station # "swap") =>
              /\ total_failures' = total_failures + 1
              /\ i' = failure'.fail_index + 1
              /\ \A j \in 0..(Len(groups[g]) - 1) :
                    (/\ IsNextSwap(groups[g], failure'.fail_index, j)
                     /\ At(groups[g], j).badge # "") =>
                       /\ attempt'.swap_index = j
                       /\ j > attempt.swap_index
                       /\ DictGet(attempts', At(groups[g], j).badge, 0)
                             = DictGet(attempts, At(groups[g], j).badge, 0) + 1]_vars
    /\ [](pc = "done" =>
            /\ total_failures = Cardinality(AllFailures)
            /\ \A b \in DictKeys(attempts) \cup {"b1", "b2"} :
                  DictGet(attempts, b, 0) = Cardinality(FailuresOf(b)))

\* A failure inside the window of an earlier attempt was given to a second
\* 'swap' row of the same badge, which now has two attempts in this unit.
C18_Witness ==
    /\ pc = "walk"
    /\ g <= Len(groups)
    /\ i = failure.fail_index + 1
    /\ ~attempt.is_none
    /\ DictGet(attempts, attempt.technician_badge, 0) >= 2
    /\ \E n \in 0..(failure.fail_index - 1) :
       \E j \in (n + 1)..(failure.fail_index - 1) :
          /\ FlowFail(At(groups[g], n))
          /\ IsNextSwap(groups[g], n, j)
          /\ At(groups[g], j).badge = attempt.technician_badge
          /\ \A m \in (j + 1)..failure.fail_index : At(groups[g], m).station # "swap"

\* The input rows (1-based) that are a fail at a station the caller's map
\* ranks above 0.
RankedFailRows ==
    {n \in 1..Len(df_in) :
        /\ StripLower(df_in[n].status) = "fail"
        /\ StripLower(df_in[n].station) \in DOMAIN order_arg.map
        /\ order_arg.map[StripLower(df_in[n].station)] > 0}

\* C19: with a caller-supplied rank map, the resolved map is that map (and it
\* is the one returned in the metadata); only fail rows at stations the map
\* ranks above 0 are counted or attributed, so a fail at a station absent
\* from the map is neither; and an attempt whose sub-scan examined no fail
\* row and pass rows only at stations absent from the map ends with
\* max_pass_rank = -1 and is not a success.
C19_SuppliedMapVerbatim ==
    /\ []((~order_arg.is_none /\ pc # "start") =>
            /\ station_order = order_arg.map
            /\ failure.fail_index >= 0 => failure.station \in DOMAIN order_arg.map
            /\ total_failures <= Cardinality(RankedFailRows)
            /\ SumVals(attempts) <= Cardinality(RankedFailRows)
            /\ pc = "done" =>
                  /\ meta.station_order = order_arg.map
                  /\ meta.fallas_totales = Cardinality(RankedFailRows))
    /\ [][(/\ ~order_arg.is_none
           /\ Processed
           /\ ~attempt'.is_none
           /\ ~FailSeen(groups[g], attempt'.swap_index)
           /\ \A n \in 0..(Len(groups[g]) - 1) :
                 (/\ SeenBySubScan(groups[g], attempt'.swap_index, n)
                  /\ At(groups[g], n).status = "pass") =>
                     At(groups[g], n).station \notin DOMAIN order_arg.map) =>
              /\ scan'.max_pass_rank = -1
              /\ scan'.success = FALSE
              /\ successes' = successes]_vars

\* Under a supplied map the input has a fail at a station absent from the
\* map that was not counted, and an attempt that stayed without success
\* although its unit passed such a station behind the repair.
C19_Witness ==
    /\ pc = "done"
    /\ ~order_arg.is_none
    /\ total_failures >= 1
    /\ SumVals(attempts) >= 1
    /\ successes = << >>
    /\ \E n \in 1..Len(df_in) :
          /\ StripLower(df_in[n].status) = "fail"
          /\ StripLower(df_in[n].station) \notin DOMAIN order_arg.map
    /\ \E m \in 1..Len(groups) :
       \E n \in 2..Len(groups[m]) :
          /\ groups[m][n].status = "pass"
          /\ groups[m][n].station \notin DOMAIN order_arg.map
          /\ groups[m][n - 1].station = "swap"
          /\ groups[m][n - 1].badge # ""

\* The rows of unit sn alone, normalised, in the order of the input.
UnitRows(sn) == SelectSeq(_normalize_frame(df_in), LAMBDA r : r.sn = sn)

\* The positions of the failures found by walking rows on their own under
\* the caller's map.
UnitFailures(rows) ==
    {n \in 0..(Len(rows) - 1) :
        /\ At(rows, n).status = "fail"
        /\ At(rows, n).station \in DOMAIN order_arg.map
        /\ order_arg.map[At(rows, n).station] > 0}

\* The failure at position n of rows, walked on their own, is attributed to
\* badge b.
UnitAttempt(rows, n, b) ==
    /\ Attributed(rows, n)
    /\ NextSwapBadge(rows, n) = b

\* The attempt of the failure at position n of rows, evaluated on their own,
\* is a success.
UnitSuccess(rows, n) ==
    LET f == FailureEvent(rows, order_arg.map, n)
    IN  _evaluate_repair_attempt(_find_repair_attempt(f, rows), f, rows,
                                 order_arg.map, MaxFlowRank(order_arg.map))

\* C20: with a caller-supplied rank map, total_failures and every badge's
\* attempts and successes are the numbers obtained by walking the rows of
\* each unit on their own, in the order they have in the input, and adding
\* up; how the rows of different units are interleaved plays no part.
C20_PerUnitSums ==
    []((pc = "done" /\ ~order_arg.is_none) =>
        \E unit \in {[sn \in {df_in[n].sn : n \in 1..Len(df_in)} |->
                         UnitRows(sn) \o << >>]} :
            /\ total_failures =
                  Cardinality(UNION {{<<sn, n>> : n \in UnitFailures(unit[sn])} :
                                        sn \in DOMAIN unit})
            /\ \A b \in DictKeys(attempts) \cup DictKeys(successes) \cup {"b1", "b2"} :
                  /\ DictGet(attempts, b, 0) =
                        Cardinality(UNION {{<<sn, n>> :
                            n \in {m \in UnitFailures(unit[sn]) :
                                      UnitAttempt(unit[sn], m, b)}} :
                            sn \in DOMAIN unit})
                  /\ DictGet(successes, b, 0) =
                        Cardinality(UNION {{<<sn, n>> :
                            n \in {m \in UnitFailures(unit[sn]) :
                                      /\ UnitAttempt(unit[sn], m, b)
                                      /\ UnitSuccess(unit[sn], m)}} :
                            sn \in DOMAIN unit}))

\* The rows of two units were interleaved in the input and each unit gave
\* an attempt to a different badge.
C20_Witness ==
    /\ pc = "done"
    /\ ~order_arg.is_none
    /\ Len(attempts) >= 2
    /\ total_failures >= 2
    /\ \E a, b, c \in 1..Len(df_in) :
          /\ a < b /\ b < c
          /\ df_in[a].sn = df_in[c].sn
          /\ df_in[a].sn # df_in[b].sn

\* The number an event_id string of the input stands for.
CsvIdNumber == [id \in {"2", "9", "10"} |->
                   CASE id = "2" -> 2 [] id = "9" -> 9 [] OTHER -> 10]

\* The sequence position of a prepared row: the number its event_id stands
\* for when the input has an event_id column, its input row number when it
\* has none.
SequencePosition(r) ==
    IF HasEventIdColumn(df_in) THEN CsvIdNumber[r.event_id] ELSE r.event_id

\* The rows of unit sn in the input that have sequence position v, in input
\* order.
UnitRowsAt(sn, v) ==
    IF HasEventIdColumn(df_in)
    THEN SelectSeq(UnitRows(sn), LAMBDA r : CsvIdNumber[r.event_id] = v)
    ELSE IF v + 1 \in 1..Len(df_in) /\ df_in[v + 1].sn = sn
         THEN <<_normalize_frame(df_in)[v + 1]>>
         ELSE << >>

\* A prepared row without the event_id the preparation gave it.
AsInInput(r) ==
    IF HasEventIdColumn(df_in) THEN r
    ELSE [sn |-> r.sn, station |-> r.station, status |-> r.status,
          error_code |-> r.error_code, badge |-> r.badge]

\* C21 as stated: the rows of each unit are walked in non-decreasing event_id
\* order (input row order when the input has no event_id column), rows of
\* equal event_id in their original row order, and the row a failure is
\* attributed to is a 'swap' row of the same unit that comes later in that
\* order.
C21_WalkedInEventIdOrder ==
    /\ pc # "start" =>
          \A m \in 1..Len(groups) :
             /\ \A n \in 1..(Len(groups[m]) - 1) :
                   SequencePosition(groups[m][n]) <= SequencePosition(groups[m][n + 1])
             /\ \A n \in 1..Len(groups[m]) :
                   LET v == SequencePosition(groups[m][n])
                       same == SelectSeq(groups[m],
                                   LAMBDA r : SequencePosition(r) = v)
                   IN  [k \in 1..Len(same) |-> AsInInput(same[k])]
                          = UnitRowsAt(groups[m][1].sn, v)
    /\ (pc = "walk" /\ g <= Len(groups) /\ i = failure.fail_index + 1
        /\ ~attempt.is_none) =>
          /\ attempt.swap_index > failure.fail_index
          /\ attempt.swap_index < Len(groups[g])
          /\ At(groups[g], attempt.swap_index).station = "swap"
          /\ At(groups[g], attempt.swap_index).sn = failure.sn
          /\ SequencePosition(At(groups[g], attempt.swap_index))
                >= SequencePosition(At(groups[g], failure.fail_index))

\* The step is one of execution e.
StepOf(e) == task_pc'[e] # task_pc[e] \/ pos'[e] # pos[e]

\* The reports execution e has computed and written so far.
Written(e) == Range(out[e].week) \cup Range(out[e].month)

\* C22: a step of an execution of run_performance_if_reports removes a file
\* from the directory only if that execution computed and wrote the report of
\* that file (the processing of the file did not raise in it) and has gone
\* through all its week and month files; a step in which a delete fails
\* moves on to the next file to delete; and when the execution has returned,
\* every file it processed successfully was deleted or its delete failed.
C22_DeletesOnlyProcessed ==
    /\ [][\A e \in Execs :
            /\ (StepOf(e) /\ dir_files' # dir_files) =>
                  \E p \in dir_files :
                     /\ dir_files' = dir_files \ {p}
                     /\ ReportPath(p) \in Written(e)
                     /\ p \notin Range(logged[e])
                     /\ task_pc[e] \notin {"idle", "week", "month"}
                     /\ Len(out[e].week) + Len(out[e].month) + Len(logged[e])
                           = Len(week_matches[e]) + Len(month_matches[e])
            /\ warned'[e] # warned[e] =>
                  /\ task_pc'[e] = task_pc[e]
                  /\ pos'[e] = pos[e] + 1
                  /\ out'[e] = out[e]]_vars
    /\ [](\A e \in Execs :
            task_pc[e] = "returned" =>
               \A f \in Range(week_matches[e]) \cup Range(month_matches[e]) :
                  ReportPath(f) \in Written(e) =>
                     (f \notin dir_files \/ f \in Range(warned[e])))

\* An execution returned after the processing of one file raised, that file
\* is still in the directory, the delete of a processed file failed and a
\* later processed file was deleted.
C22_Witness ==
    \E e \in Execs :
        /\ task_pc[e] = "returned"
        /\ task_pc[CHOOSE o \in Execs : o # e] = "idle"
        /\ \E f \in Range(logged[e]) : f \in dir_files
        /\ \E a, b \in 1..Len(processed_paths[e]) :
              /\ a < b
              /\ processed_paths[e][a] \in Range(warned[e])
              /\ processed_paths[e][a] \in dir_files
              /\ processed_paths[e][b] \notin dir_files

\* The name of file f contains a period number.
HasPeriodNumber(f) == f.tag \in DOMAIN TagNumber

\* File a may be processed before file b of the same kind: ascending period
\* number, files without a period number behind those that have one.
PeriodOrdered(a, b) ==
    IF HasPeriodNumber(a)
    THEN HasPeriodNumber(b) => TagNumber[a.tag] <= TagNumber[b.tag]
    ELSE ~HasPeriodNumber(b)

\* The files of list matches that execution e has handled so far: their
\* report was returned or their processing raised.
Handled(e, matches) ==
    {f \in Range(matches) : ReportPath(f) \in Written(e) \/ f \in Range(logged[e])}

\* C23 as stated: an execution of run_performance_if_reports handles no month
\* file before it has handled all its week files, and handles the files of
\* each kind in ascending period number, a file whose name has no period
\* number after the files of its kind that have one.
C23_WeeksThenMonthsAscending ==
    \A e \in Execs :
        /\ task_pc[e] = "week" =>
              /\ Handled(e, month_matches[e]) = {}
              /\ Handled(e, week_matches[e])
                    = {week_matches[e][n] : n \in 1..pos[e]}
        /\ task_pc[e] = "month" =>
              /\ Handled(e, week_matches[e]) = Range(week_matches[e])
              /\ Handled(e, month_matches[e])
                    = {month_matches[e][n] : n \in 1..pos[e]}
        /\ task_pc[e] # "idle" =>
              /\ \A a, b \in 1..Len(week_matches[e]) :
                    a < b => PeriodOrdered(week_matches[e][a], week_matches[e][b])
              /\ \A a, b \in 1..Len(month_matches[e]) :
                    a < b => PeriodOrdered(month_matches[e][a], month_matches[e][b])

\* The executions that have computed and written the report of file f.
ProcessedBy(f) == {e \in Execs : ReportPath(f) \in Written(e)}

\* C24 as stated: an input file is processed into a report by at most one
\* execution of run_performance_if_reports, whether the executions follow
\* one another or overlap on the directory.
C24_ProcessedByOneExecution ==
    \A f \in FilePool : Cardinality(ProcessedBy(f)) <= 1

\* The highest rank above 0 of the resolved rank map, 0 when it has none.
TopFlowRank ==
    MaxOf({0} \cup {station_order[st] : st \in DOMAIN station_order})

\* C25: for every rank map the rank of a detected failure is at most the
\* maximum flow rank, and an attempt whose sub-scan stopped at a pass row
\* (which it does only at the maximum flow rank) is a success: max_pass_rank
\* is then at least the failure's rank and the badge has the success.
C25_EndOfLineIsSuccess ==
    (pc = "walk" /\ g <= Len(groups) /\ i = failure.fail_index + 1) =>
        /\ failure.fail_rank <= TopFlowRank
        /\ failure.fail_rank <= max_flow_rank
        /\ (/\ ~attempt.is_none
            /\ scan.k < Len(groups[g])
            /\ At(groups[g], scan.k).status = "pass"
            /\ At(groups[g], scan.k).station # "swap") =>
               /\ RankOf(station_order, At(groups[g], scan.k).station) = TopFlowRank
               /\ scan.max_pass_rank >= failure.fail_rank
               /\ scan.success
               /\ DictGet(successes, attempt.technician_badge, 0) >= 1

\* Under a caller-supplied rank map a unit failed at the station of the
\* maximum flow rank and the sub-scan of its attempt stopped at a pass of
\* that station.
C25_Witness ==
    /\ pc = "walk"
    /\ g <= Len(groups)
    /\ i = failure.fail_index + 1
    /\ ~order_arg.is_none
    /\ ~attempt.is_none
    /\ failure.fail_rank = max_flow_rank
    /\ scan.k < Len(groups[g])
    /\ At(groups[g], scan.k).status = "pass"
    /\ At(groups[g], scan.k).station = failure.station
    /\ scan.success

\* The body or the commit of use u raised.
BodyOrCommitRaised(u) == ctx[u].body_exc # NoExc \/ ctx[u].commit_exc # NoExc

\* The body or the commit of use u raised an exception of a class that
\* "except Exception" catches.
BodyOrCommitRaisedException(u) ==
    ctx[u].body_exc.class = "Exception" \/ ctx[u].commit_exc.class = "Exception"

\* C26 as stated: when a use of get_session is over, its session was closed
\* exactly once, commit was called exactly when the body did not raise, and
\* when the body or the commit raised, rollback was called and the caller
\* got an exception.
C26_CommitOrRollback ==
    \A u \in Uses :
        ctx[u].at = "done" =>
            /\ session[u].closes = 1
            /\ session[u].state = "closed"
            /\ (session[u].commits = 1) <=> (ctx[u].body_exc = NoExc)
            /\ session[u].commits <= 1
            /\ BodyOrCommitRaised(u) =>
                  /\ session[u].rollbacks = 1
                  /\ ctx[u].outcome = "raised"

\* C26 amended: when a use of get_session is over, its session was closed
\* exactly once; commit was called (once) exactly when the body did not
\* raise; rollback was called (once) exactly when the body or the commit
\* raised an exception that "except Exception" catches, and not for one
\* outside Exception; and whenever the body or the commit raised, the caller
\* got an exception: the one raised, unless rollback or close raised one of
\* its own.
C26_RollbackOnException ==
    \A u \in Uses :
        ctx[u].at = "done" =>
            /\ session[u].closes = 1
            /\ session[u].state = "closed"
            /\ (session[u].commits = 1) <=> (ctx[u].body_exc = NoExc)
            /\ session[u].commits <= 1
            /\ (session[u].rollbacks = 1) <=> BodyOrCommitRaisedException(u)
            /\ session[u].rollbacks <= 1
            /\ BodyOrCommitRaised(u) =>
                  /\ ctx[u].outcome = "raised"
                  /\ ctx[u].exc.from \in {"body", "commit"} =>
                        ctx[u].exc \in {ctx[u].body_exc, ctx[u].commit_exc}
            /\ ctx[u].outcome = "returned" =>
                  (session[u].commits = 1 /\ session[u].rollbacks = 0)

\* One use is over after its commit raised, was rolled back and its caller
\* got the exception of the commit; the other is over after its body raised
\* an exception outside Exception, with no rollback.
C26_Witness ==
    \E u, v \in Uses :
        /\ ctx[u].at = "done"
        /\ ctx[u].commit_exc = Exc("commit", "Exception")
        /\ ctx[u].exc = Exc("commit", "Exception")
        /\ session[u].rollbacks = 1
        /\ session[u].closes = 1
        /\ ctx[v].at = "done"
        /\ ctx[v].body_exc = Exc("body", "BaseException")
        /\ session[v].rollbacks = 0
        /\ session[v].closes = 1
        /\ ctx[v].outcome = "raised"

====
